---- MODULE Spec2Model ----
(***************************************************************************)
(* A model of gop_voter_lookup.py: the result-row parser, the detail-page  *)
(* section extractors, and the authenticated search run.                   *)
(*                                                                         *)
(* Text is modelled by TLA+ strings, with Python's str operations          *)
(* (strip, split, lower, startswith, "in") written out on them.  The DOM   *)
(* the browser hands to the script is an input: the rows of the results    *)
(* table and the sections of the detail page are drawn from bounded sets.  *)
(***************************************************************************)
EXTENDS Integers, Sequences, FiniteSets, TLC

(***************************************************************************)
(* Python str operations                                                   *)
(***************************************************************************)

\* s[m-1:n] of a string, the bounds clamped as Python slicing clamps them.
Slice(s, m, n) ==
    LET lo == IF m < 1 THEN 1 ELSE m
        hi == IF n > Len(s) THEN Len(s) ELSE n
    IN  IF lo > hi THEN "" ELSE SubSeq(s, lo, hi)

Ch(s, i) == Slice(s, i, i)

Whitespace == {" ", "\t", "\n", "\r"}

UpperAlpha == "ABCDEFGHIJKLMNOPQRSTUVWXYZ"

LowerAlpha == "abcdefghijklmnopqrstuvwxyz"

Digits == {"0", "1", "2", "3", "4", "5", "6", "7", "8", "9"}

UpperLetters == {Ch(UpperAlpha, k) : k \in 1..26}

LowerLetters == {Ch(LowerAlpha, k) : k \in 1..26}

\* The letter of the other case, by position in the alphabet.
ToLower == [c \in UpperLetters |-> Ch(LowerAlpha, CHOOSE k \in 1..26 : Ch(UpperAlpha, k) = c)]

ToUpper == [c \in LowerLetters |-> Ch(UpperAlpha, CHOOSE k \in 1..26 : Ch(LowerAlpha, k) = c)]

IsUpper(c) == c \in UpperLetters

IsLower(c) == c \in LowerLetters

IsAlpha(c) == IsUpper(c) \/ IsLower(c)

LowerCh(c) == IF IsUpper(c) THEN ToLower[c] ELSE c

UpperCh(c) == IF IsLower(c) THEN ToUpper[c] ELSE c

RECURSIVE Lower(_)
\* str.lower()
Lower(s) == IF s = "" THEN "" ELSE LowerCh(Ch(s, 1)) \o Lower(Tail(s))

RECURSIVE Upper(_)
\* str.upper()
Upper(s) == IF s = "" THEN "" ELSE UpperCh(Ch(s, 1)) \o Upper(Tail(s))

\* sub in s
Contains(s, sub) == \E k \in 1..(Len(s) - Len(sub) + 1) : Slice(s, k, k + Len(sub) - 1) = sub

\* s.startswith(p)
StartsWith(s, p) == Len(p) <= Len(s) /\ Slice(s, 1, Len(p)) = p

\* str.strip(): the text between the first and the last non-whitespace character.
Strip(s) ==
    LET keep == {k \in 1..Len(s) : Ch(s, k) \notin Whitespace}
    IN  IF keep = {} THEN ""
        ELSE Slice(s, CHOOSE k \in keep : \A j \in keep : k <= j,
                      CHOOSE k \in keep : \A j \in keep : k >= j)

RECURSIVE SplitOn(_, _)
\* s.split(sep) for a non-empty separator: always at least one piece.
SplitOn(s, sep) ==
    LET hits == {k \in 1..(Len(s) - Len(sep) + 1) : Slice(s, k, k + Len(sep) - 1) = sep}
    IN  IF hits = {} THEN <<s>>
        ELSE LET k == CHOOSE h \in hits : \A j \in hits : h <= j
             IN  <<Slice(s, 1, k - 1)>> \o SplitOn(Slice(s, k + Len(sep), Len(s)), sep)

RECURSIVE SplitWs(_)
\* s.split(): the maximal runs of non-whitespace characters.
SplitWs(s) ==
    LET t == Strip(s)
        gaps == {k \in 1..Len(t) : Ch(t, k) \in Whitespace}
    IN  IF t = "" THEN <<>>
        ELSE IF gaps = {} THEN <<t>>
        ELSE LET k == CHOOSE g \in gaps : \A j \in gaps : g <= j
             IN  <<Slice(t, 1, k - 1)>> \o SplitWs(Slice(t, k + 1, Len(t)))

RECURSIVE Join(_, _)
\* sep.join(parts)
Join(parts, sep) ==
    IF parts = <<>> THEN ""
    ELSE IF Len(parts) = 1 THEN parts[1]
    ELSE parts[1] \o sep \o Join(Tail(parts), sep)

Last(seq) == seq[Len(seq)]

\* Optional[T]: None is <<>>, a present value v is <<v>>.
Some(v) == <<v>>

Absent == <<>>

\* Python truthiness of an Optional[str] / Optional[list]: None, "" and [] are falsy.
Truthy(o) == o # Absent /\ Len(o[1]) > 0

RECURSIVE SeqsUpTo(_, _)
\* The sequences over S of length at most n.
SeqsUpTo(S, n) ==
    IF n = 0 THEN {<<>>}
    ELSE LET shorter == SeqsUpTo(S, n - 1)
         IN  shorter \cup {Append(q, e) : q \in {t \in shorter : Len(t) = n - 1}, e \in S}

(***************************************************************************)
(* State                                                                   *)
(***************************************************************************)
VARIABLES
    \* _extract_results
    table,            \* the results table of the page (input DOM), or NoTable
    extract_details,  \* GOPVoterLookup.extract_details
    ri,               \* the loop variable i of _extract_results, 1-based
    results,          \* the list _extract_results builds
    rpc,              \* where _extract_results is: "find", "rows", "done", "idle"
    tabs,             \* the tabs of the browser context beside the results tab
    at_results,       \* the results tab shows the results page
    \* _extract_detailed_voter_info
    page,             \* the detail page (input DOM)
    di,               \* the loop variable i over the page's sections, 1-based
    rec,              \* detailed_record
    dret,             \* what _extract_detailed_voter_info returned: Absent is None
    dpc,              \* where it is: "start", "articles", "done", "idle"
    \* main, search_voters and _authenticate
    mode,             \* "direct" (names on the command line) or "sheets" (--sheets)
    voter_names,      \* args.voters, or the names of name_entries
    row_limit,        \* args.row_limit, 0 for None
    sheet,            \* the rows of the spreadsheet from start_row on
    name_entries,     \* what read_column returned: the names with their rows
    site,             \* how the search page behaves for each name searched
    voter_results,    \* what the latest _search_voter call returned
    all_results,      \* all_results of search_voters
    export_format,    \* args.export, "" for None
    exported,         \* the text export_results wrote, Absent when it did not run
    update_calls,     \* the rows update_row was called for, in order
    skipped_count,    \* skipped_count of main
    browser,          \* "none", "open" or "closed"
    url,              \* page.url
    submitted,        \* the click on the Log In button went through
    authRet,          \* what _authenticate returned, Absent before it returns
    authRaised,       \* _authenticate ended with an exception
    ni,               \* the position of the loop over the names, 1-based
    queries,          \* the number of _search_voter calls made
    updated,          \* the rows update_row has written, in order
    processed_count,  \* processed_count of main
    out,              \* the lines printed that tell of a failure, and the traceback
    exit,             \* the exit status of the process, -1 while it runs
    mpc               \* where the run is

rowVars == <<table, extract_details, ri, results, rpc, tabs, at_results>>

detailVars == <<page, di, rec, dret, dpc>>

\* The variables of the loops over the names.
batchVars == <<name_entries, site, voter_results, all_results, export_format, exported,
               update_calls, skipped_count>>

runVars == <<mode, voter_names, row_limit, sheet, browser, url, submitted, authRet, authRaised, ni,
             queries, updated, processed_count, out, exit, mpc, batchVars>>

vars == <<table, extract_details, ri, results, rpc, tabs, at_results, page, di, rec, dret, dpc,
          mode, voter_names, row_limit, sheet, browser, url, submitted, authRet, authRaised, ni,
          queries, updated, processed_count, out, exit, mpc,
          name_entries, site, voter_results, all_results, export_format, exported,
          update_calls, skipped_count>>

(***************************************************************************)
(* _extract_results: the result-row parser                                 *)
(***************************************************************************)

DetailUrlPrefix == "https://www.gopdatacenter.com/rnc/RecordLookup/RecordMaintenance.aspx?id="

\* The first position at or after q that holds no whitespace (Len(h) + 1 if none).
SkipWs(h, q) ==
    LET stop == {k \in q..Len(h) : Ch(h, k) \notin Whitespace}
    IN  IF stop = {} THEN Len(h) + 1 ELSE CHOOSE k \in stop : \A j \in stop : k <= j

\* The first position at or after q that holds no digit (Len(h) + 1 if none).
SkipDigits(h, q) ==
    LET stop == {k \in q..Len(h) : Ch(h, k) \notin Digits}
    IN  IF stop = {} THEN Len(h) + 1 ELSE CHOOSE k \in stop : \A j \in stop : k <= j

\* re.match of  OpenUserWindow\s*\(\s*(\d+)\s*\)  at position p of h: group 1, or Absent.
\* The character classes are disjoint, so the greedy match is the only one.
OpenUserWindowAt(h, p) ==
    LET a == SkipWs(h, p + Len("OpenUserWindow"))
        b == SkipWs(h, a + 1)
        c == SkipDigits(h, b)
        e == SkipWs(h, c)
    IN  IF /\ Slice(h, p, p + Len("OpenUserWindow") - 1) = "OpenUserWindow"
           /\ a <= Len(h) /\ Ch(h, a) = "("
           /\ c > b
           /\ e <= Len(h) /\ Ch(h, e) = ")"
        THEN Some(Slice(h, b, c - 1))
        ELSE Absent

\* re.search(r'OpenUserWindow\s*\(\s*(\d+)\s*\)', row_html): group 1 of the leftmost match.
OpenUserWindowSearch(h) ==
    LET hits == {p \in 1..Len(h) : OpenUserWindowAt(h, p) # Absent}
    IN  IF hits = {} THEN Absent
        ELSE OpenUserWindowAt(h, CHOOSE p \in hits : \A j \in hits : p <= j)

\* view_voter_url of a row: "" unless the markup holds an OpenUserWindow(id) call;
\* inner_html() raising leaves it "" too.
ViewVoterUrl(row) ==
    IF row.htmlFails \/ OpenUserWindowSearch(row.html) = Absent THEN ""
    ELSE DetailUrlPrefix \o OpenUserWindowSearch(row.html)[1]

\* lines = row_text.strip().split('\n')
RowLines(text) == SplitOn(Strip(text), "\n")

\* len(lines) < 2 or all(not line.strip() for line in lines)
RowTooShort(lines) == Len(lines) < 2 \/ \A k \in 1..Len(lines) : Strip(lines[k]) = ""

ActionLabels == {"view", "select", "view voter"}

\* Mutant: the first line is never taken for an action column.
StartIdx_NoOffset(lines) == 0

\* start_idx: 1 when the first line is an action-button label or blank, else 0.
StartIdx(lines) == IF Lower(lines[1]) \in ActionLabels \/ Strip(lines[1]) = "" THEN 1 ELSE 0

\* lines[k] if the list is that long, else "" (k is a Python index).
LineOr(lines, k) == IF Len(lines) > k THEN lines[k + 1] ELSE ""

RECURSIVE ScanMarkers(_, _)
\* The loop over lines[start_idx + 3:]: each matching line assigns its variable.
ScanMarkers(rest, acc) ==
    IF rest = <<>> THEN acc
    ELSE LET line == Head(rest)
             nxt == IF StartsWith(line, "(") THEN [acc EXCEPT !.phone = line]
                    ELSE IF Contains(line, "DOB:")
                         THEN [acc EXCEPT !.dob = Strip(Last(SplitOn(line, "DOB:")))]
                    ELSE IF Contains(line, "Calculated Party:")
                         THEN [acc EXCEPT !.party = Strip(Last(SplitOn(line, ":")))]
                    ELSE acc
         IN  ScanMarkers(Tail(rest), nxt)

\* Mutant: the first three tokens are taken as city, state and zip.
ParseCityStateZip_FirstThree(city_state_zip) ==
    LET parts == SplitWs(city_state_zip)
    IN  IF city_state_zip # "" /\ Len(parts) >= 3
        THEN [city |-> parts[1], state |-> parts[2], zip_code |-> parts[3]]
        ELSE [city |-> "", state |-> "", zip_code |-> ""]

\* Parse city, state, zip: with at least three tokens the last two are state and zip.
ParseCityStateZip(city_state_zip) ==
    LET parts == SplitWs(city_state_zip)
        n == Len(parts)
    IN  IF city_state_zip # "" /\ n >= 3
        THEN [city |-> Join(SubSeq(parts, 1, n - 2), " "), state |-> parts[n - 1], zip_code |-> parts[n]]
        ELSE [city |-> "", state |-> "", zip_code |-> ""]

\* How the site answers the detail visit of a row.  button: the row shows a View Voter
\* button; new_tab: a click on it opens a tab; navigates: a click that opens no tab
\* takes the results tab to another page (else the tab stays where it is);
\* load_ok: the navigation and the network-idle wait of line 917 end in time; marker:
\* the page reached holds article#personal-info; extracted:
\* _extract_detailed_voter_info returns a record; back_ok: the wait after go_back()
\* ends in time.
Visit(button, new_tab) ==
    [button |-> button, new_tab |-> new_tab, navigates |-> TRUE, load_ok |-> TRUE,
     marker |-> TRUE, extracted |-> TRUE, back_ok |-> TRUE]

\* Lines 828-962: _extract_detailed_info_for_row.  ret: what it returns (Absent for
\* None); left_open: the tabs it opened and did not close; away: the results tab was
\* navigated and not brought back.
DetailVisit(row) ==
    LET v == row.visit
        own_tab == ViewVoterUrl(row) # "" \/ v.new_tab
        left == [ret |-> Absent, left_open |-> IF own_tab THEN 1 ELSE 0,
                 away |-> ~own_tab /\ v.navigates]
    IN  IF ViewVoterUrl(row) = "" /\ ~v.button
        THEN [ret |-> Absent, left_open |-> 0, away |-> FALSE]
        ELSE IF ~v.load_ok \/ ~v.marker THEN left
        ELSE [ret |-> IF v.extracted /\ (own_tab \/ v.back_ok)
                      THEN Some("detailed_info") ELSE Absent,
              left_open |-> 0,
              away |-> FALSE]

\* asdict(VoterRecord(...)) for one row, plus the detailed_info key (Absent: no key).
SummaryRecord(row, detailed_info) ==
    LET lines == RowLines(row.text)
        s == StartIdx(lines)
        m == ScanMarkers(SubSeq(lines, s + 4, Len(lines)), [phone |-> "", dob |-> "", party |-> ""])
        csz == ParseCityStateZip(LineOr(lines, s + 2))
    IN  [name |-> Strip(LineOr(lines, s)),
         address |-> Strip(LineOr(lines, s + 1)),
         city |-> csz.city,
         state |-> csz.state,
         zip_code |-> csz.zip_code,
         phone |-> Some(m.phone),
         date_of_birth |-> Some(m.dob),
         calculated_party |-> Some(m.party),
         view_voter_url |-> Some(ViewVoterUrl(row)),
         voter_id |-> Absent,
         precinct |-> Absent,
         status |-> Absent,
         detailed_info |-> detailed_info]

NoTable == [visible |-> FALSE]

\* rows.nth(i) ranges over tbody's rows when the table has a tbody, else over all rows.
Rows(t) == IF t.hasTbody THEN t.body ELSE t.head \o t.body

\* start_row as a 1-based index: the first row is skipped unless the rows come from a tbody.
StartRow(t) == IF t.hasTbody THEN 1 ELSE 2

\* Lines 682-695: no visible results table: return the empty list.
NoResultsTable ==
    /\ rpc = "find"
    /\ table = NoTable
    /\ rpc' = "done"
    /\ UNCHANGED <<table, extract_details, ri, results, tabs, at_results>>
    /\ UNCHANGED <<detailVars, runVars>>

\* Lines 682-710: the table is found, the rows and start_row are chosen.
FindResultsTable ==
    /\ rpc = "find"
    /\ table # NoTable
    /\ ri' = StartRow(table)
    /\ rpc' = "rows"
    /\ UNCHANGED <<table, extract_details, results, tabs, at_results>>
    /\ UNCHANGED <<detailVars, runVars>>

\* Lines 722-734: a row that is empty or too short is skipped.
SkipRow ==
    /\ rpc = "rows"
    /\ ri <= Len(Rows(table))
    /\ at_results
    /\ ~Rows(table)[ri].textFails
    /\ RowTooShort(RowLines(Rows(table)[ri].text))
    /\ ri' = ri + 1
    /\ UNCHANGED <<table, extract_details, results, rpc, tabs, at_results>>
    /\ UNCHANGED <<detailVars, runVars>>

\* Lines 736-820: a row is parsed into a record, which is appended.  With
\* extract_details _extract_detailed_info_for_row is called and its result attached
\* when truthy; the call may leave a tab open or the results tab on another page.
EmitRow ==
    /\ rpc = "rows"
    /\ ri <= Len(Rows(table))
    /\ at_results
    /\ ~Rows(table)[ri].textFails
    /\ ~RowTooShort(RowLines(Rows(table)[ri].text))
    /\ IF extract_details
       THEN LET visit == DetailVisit(Rows(table)[ri])
            IN  /\ results' = Append(results, SummaryRecord(Rows(table)[ri], visit.ret))
                /\ tabs' = tabs + visit.left_open
                /\ at_results' = ~visit.away
       ELSE /\ results' = Append(results, SummaryRecord(Rows(table)[ri], Absent))
            /\ UNCHANGED <<tabs, at_results>>
    /\ ri' = ri + 1
    /\ UNCHANGED <<table, extract_details, rpc>>
    /\ UNCHANGED <<detailVars, runVars>>

\* The row loop left at the first row whose text cannot be read.
RowError_Abort ==
    /\ rpc = "rows"
    /\ ri <= Len(Rows(table))
    /\ Rows(table)[ri].textFails \/ ~at_results
    /\ rpc' = "done"
    /\ UNCHANGED <<table, extract_details, ri, results, tabs, at_results>>
    /\ UNCHANGED <<detailVars, runVars>>

\* Lines 822-824: row.inner_text() raises, as it does for every row once the results
\* tab shows another page: the row is logged and the loop continues.
RowError ==
    /\ rpc = "rows"
    /\ ri <= Len(Rows(table))
    /\ Rows(table)[ri].textFails \/ ~at_results
    /\ ri' = ri + 1
    /\ UNCHANGED <<table, extract_details, results, rpc, tabs, at_results>>
    /\ UNCHANGED <<detailVars, runVars>>

\* Line 826: the loop is over: return results.
ReturnResults ==
    /\ rpc = "rows"
    /\ ri > Len(Rows(table))
    /\ rpc' = "done"
    /\ UNCHANGED <<table, extract_details, ri, results, tabs, at_results>>
    /\ UNCHANGED <<detailVars, runVars>>

RowsNext == NoResultsTable \/ FindResultsTable \/ SkipRow \/ EmitRow \/ RowError \/ ReturnResults

(***************************************************************************)
(* DetailedVoterRecord and the DOM of a detail-page section                *)
(***************************************************************************)

\* The Optional fields of DetailedVoterRecord (name, a str, is kept beside them).
DetailFields ==
    {"first_name", "middle_name", "last_name", "birthday", "age", "gender",
     "mobile_phone", "mobile_phone_reliability", "landline_phone", "landline_phone_reliability",
     "primary_address", "secondary_address", "facebook", "instagram", "twitter",
     "registration_status", "registration_date", "last_activity_date", "official_party",
     "observed_party", "calculated_party", "absentee_status",
     "state_reported_ethnicity", "modeled_ethnicity", "observed_ethnicity",
     "gopdc_voter_key", "rnc_client_id", "state_voter_id", "jurisdictional_voter_id",
     "rnc_registration_id",
     "congressional_district", "senate_district", "legislative_district", "jurisdiction",
     "precinct", "precinct_number", "custom_districts",
     "early_vote_date", "vote_history",
     "overall_frequency", "general_frequency", "primary_frequency",
     "voter_regularity_general", "voter_regularity_primary",
     "dma", "census_block", "turf", "tags", "notes"}

\* DetailedVoterRecord(name=""): every Optional field None.
NewDetailedRecord == [name |-> "", f |-> [x \in DetailFields |-> Absent]]

\* detailed_record.<field> = value
SetField(r, field, value) == [r EXCEPT !.f[field] = Some(value)]

\* A section of the page.  text is its inner_text() (textFails: the call raises);
\* spans are its span elements (id, text) in document order; h6s are its h6 elements,
\* each with its next sibling element, if any; phones are its .col-xs-12.col-sm-3
\* containers and socials its div[id*="rptSocial"] containers, each with its h6
\* texts and its spans; lis are the texts of its li elements.
Article(id, text) ==
    [id |-> id, text |-> text, textFails |-> FALSE, spans |-> <<>>, h6s |-> <<>>,
     phones |-> <<>>, socials |-> <<>>, lis |-> <<>>]

Span(id, text) == [id |-> id, text |-> text]

Container(h6, spans) == [h6 |-> h6, spans |-> spans]

RECURSIVE Locate(_, _)
\* locator('span[id*="key"]'): the spans whose id contains key, in document order.
Locate(spans, key) ==
    IF spans = <<>> THEN <<>>
    ELSE (IF Contains(Head(spans).id, key) THEN <<Head(spans)>> ELSE <<>>)
         \o Locate(Tail(spans), key)

RECURSIVE LocateAfterH6(_, _)
\* locator('h6:has-text("key") + *'): the next siblings of the h6 elements whose
\* text contains key, ignoring case.
LocateAfterH6(h6s, key) ==
    IF h6s = <<>> THEN <<>>
    ELSE (IF Contains(Lower(Head(h6s).text), Lower(key)) /\ Head(h6s).next # Absent
          THEN <<Head(h6s).next[1]>> ELSE <<>>)
         \o LocateAfterH6(Tail(h6s), key)

\* A value a step does not store: "prefix" drops a value that starts with "No Data",
\* "exact" one that equals "No Data Provided", "none" drops nothing.
Filtered(filter, v) ==
    \/ filter = "prefix" /\ StartsWith(v, "No Data")
    \/ filter = "exact" /\ v = "No Data Provided"

\* One `elem = article.locator(...); if await elem.count() > 0: field = await
\* elem.inner_text()` step.  first: the locator is narrowed with .first; without it
\* inner_text() on several elements raises (strict mode).
SpanStep(key, field, first, filter) == [key |-> key, field |-> field, first |-> first, filter |-> filter]

RECURSIVE RunSpanSteps(_, _, _)
\* The steps run in order on the record; [r, ok]: ok is FALSE when a step raised,
\* which ends the handler with the fields set so far.
RunSpanSteps(steps, spans, r) ==
    IF steps = <<>> THEN [r |-> r, ok |-> TRUE]
    ELSE LET st == Head(steps)
             found == Locate(spans, st.key)
         IN  IF found = <<>> THEN RunSpanSteps(Tail(steps), spans, r)
             ELSE IF ~st.first /\ Len(found) > 1 THEN [r |-> r, ok |-> FALSE]
             ELSE IF Filtered(st.filter, found[1].text) THEN RunSpanSteps(Tail(steps), spans, r)
             ELSE RunSpanSteps(Tail(steps), spans, SetField(r, st.field, found[1].text))

RECURSIVE RunH6Steps(_, _, _)
\* The same for `elem = article.locator('h6:has-text(...) + *').first` steps.
RunH6Steps(steps, h6s, r) ==
    IF steps = <<>> THEN r
    ELSE LET st == Head(steps)
             found == LocateAfterH6(h6s, st.key)
         IN  IF found = <<>> \/ Filtered(st.filter, found[1]) THEN RunH6Steps(Tail(steps), h6s, r)
             ELSE RunH6Steps(Tail(steps), h6s, SetField(r, st.field, found[1]))

(***************************************************************************)
(* The section handlers                                                    *)
(***************************************************************************)

\* Lines 1067-1070: the display name is built when a first or a last name is set.
ConstructName(r) ==
    LET parts == SelectSeq(<<r.f["first_name"], r.f["middle_name"], r.f["last_name"]>>, Truthy)
    IN  IF Truthy(r.f["first_name"]) \/ Truthy(r.f["last_name"])
        THEN [r EXCEPT !.name = Join([k \in 1..Len(parts) |-> parts[k][1]], " ")]
        ELSE r

PersonalNameSteps ==
    <<SpanStep("lblFirstName", "first_name", FALSE, "none"),
      SpanStep("lblMiddleName", "middle_name", FALSE, "none"),
      SpanStep("lblLastName", "last_name", FALSE, "none")>>

PersonalOtherSteps ==
    <<SpanStep("lblBirthday", "birthday", FALSE, "none"),
      SpanStep("lblAge", "age", FALSE, "none"),
      SpanStep("lblGender", "gender", FALSE, "none")>>

\* The handler that loses the record when a step raises.
ExtractPersonal_Discard(art, r) ==
    LET names == RunSpanSteps(PersonalNameSteps, art.spans, r)
    IN  IF ~names.ok THEN NewDetailedRecord
        ELSE RunSpanSteps(PersonalOtherSteps, art.spans, ConstructName(names.r)).r

\* _extract_personal_info
ExtractPersonal(art, r) ==
    LET names == RunSpanSteps(PersonalNameSteps, art.spans, r)
    IN  IF ~names.ok THEN names.r
        ELSE RunSpanSteps(PersonalOtherSteps, art.spans, ConstructName(names.r)).r

\* Lines 1098-1126, one phone container.  [r, ok] as for RunSpanSteps.
PhoneContainer(c, r) ==
    LET phone == Locate(c.spans, "lblPhone")
        trc == Locate(c.spans, "lblTRC")
        number == phone[1].text
        store(field) ==
            IF Truthy(r.f[field]) THEN r
            ELSE IF trc # <<>> /\ trc[1].text # ""
                 THEN SetField(SetField(r, field, number), field \o "_reliability", trc[1].text)
                 ELSE SetField(r, field, number)
    IN  IF c.h6 = <<>> \/ phone = <<>> THEN [r |-> r, ok |-> TRUE]
        ELSE IF Len(phone) > 1 \/ Len(trc) > 1 THEN [r |-> r, ok |-> FALSE]
        ELSE IF Contains(c.h6[1], "Mobile Phone") /\ ~StartsWith(number, "No Data")
             THEN [r |-> store("mobile_phone"), ok |-> TRUE]
        ELSE IF Contains(c.h6[1], "Landline Phone") /\ ~StartsWith(number, "No Data")
             THEN [r |-> store("landline_phone"), ok |-> TRUE]
        ELSE [r |-> r, ok |-> TRUE]

\* Lines 1156-1175, one social-media container.
SocialContainer(c, r) ==
    LET social == Locate(c.spans, "lblSocial")
        value == social[1].text
    IN  IF c.h6 = <<>> \/ social = <<>> THEN [r |-> r, ok |-> TRUE]
        ELSE IF Len(social) > 1 THEN [r |-> r, ok |-> FALSE]
        ELSE IF value = "" \/ StartsWith(value, "No Data") THEN [r |-> r, ok |-> TRUE]
        ELSE IF Contains(c.h6[1], "Facebook") THEN [r |-> SetField(r, "facebook", value), ok |-> TRUE]
        ELSE IF Contains(c.h6[1], "Instagram") THEN [r |-> SetField(r, "instagram", value), ok |-> TRUE]
        ELSE IF Contains(c.h6[1], "Twitter") THEN [r |-> SetField(r, "twitter", value), ok |-> TRUE]
        ELSE [r |-> r, ok |-> TRUE]

RECURSIVE RunPhones(_, _)
\* The loop over the phone containers, ended by the first one that raises.
RunPhones(cs, r) ==
    IF cs = <<>> THEN [r |-> r, ok |-> TRUE]
    ELSE LET one == PhoneContainer(Head(cs), r)
         IN  IF one.ok THEN RunPhones(Tail(cs), one.r) ELSE one

RECURSIVE RunSocials(_, _)
\* The loop over the social-media containers, ended by the first one that raises.
RunSocials(cs, r) ==
    IF cs = <<>> THEN [r |-> r, ok |-> TRUE]
    ELSE LET one == SocialContainer(Head(cs), r)
         IN  IF one.ok THEN RunSocials(Tail(cs), one.r) ELSE one

\* Lines 1128-1150: an address line, with its city/state/zip line when there is one.
AddressStep(spans, r, field, lineKey, cszKey) ==
    LET line == Locate(spans, lineKey)
        csz == Locate(spans, cszKey)
    IN  IF line = <<>> THEN [r |-> r, ok |-> TRUE]
        ELSE IF Len(line) > 1 \/ Len(csz) > 1 THEN [r |-> r, ok |-> FALSE]
        ELSE IF csz # <<>>
             THEN [r |-> SetField(r, field, line[1].text \o ", " \o csz[1].text), ok |-> TRUE]
        ELSE [r |-> SetField(r, field, line[1].text), ok |-> TRUE]

\* _extract_contact_info
ExtractContact(art, r) ==
    LET phones == RunPhones(art.phones, r)
        primary == AddressStep(art.spans, phones.r, "primary_address",
                               "lblPrimaryAddress", "lblPrimaryCityStZip")
        secondary == AddressStep(art.spans, primary.r, "secondary_address",
                                 "lblSecondaryAddress", "lblSecondaryCityStZip")
    IN  IF ~phones.ok THEN phones.r
        ELSE IF ~primary.ok THEN primary.r
        ELSE IF ~secondary.ok THEN secondary.r
        ELSE RunSocials(art.socials, secondary.r).r

VoterInfoSteps ==
    <<SpanStep("lblRegistrationStatus", "registration_status", FALSE, "none"),
      SpanStep("lblRegistrationDate", "registration_date", FALSE, "none"),
      SpanStep("lblLastVoterActivity", "last_activity_date", FALSE, "none"),
      SpanStep("lblOfficialParty", "official_party", FALSE, "none"),
      SpanStep("lblParty", "observed_party", TRUE, "none"),
      SpanStep("lblRNCCalcParty", "calculated_party", FALSE, "none"),
      SpanStep("lblAbsenteeStatus", "absentee_status", FALSE, "prefix"),
      SpanStep("lblStateReportedEthnicity", "state_reported_ethnicity", FALSE, "exact"),
      SpanStep("lblEthnicity", "modeled_ethnicity", FALSE, "none"),
      SpanStep("lblObservedEthnicity", "observed_ethnicity", FALSE, "exact")>>

\* _extract_voter_info
ExtractVoterInfo(art, r) == RunSpanSteps(VoterInfoSteps, art.spans, r).r

VoterIdentificationSteps ==
    <<SpanStep("lblVoterId", "gopdc_voter_key", FALSE, "none"),
      SpanStep("lblClientId", "rnc_client_id", FALSE, "none"),
      SpanStep("lblStateVoterId", "state_voter_id", FALSE, "none"),
      SpanStep("lblRegistrationId", "jurisdictional_voter_id", FALSE, "prefix"),
      SpanStep("lblRncRegId", "rnc_registration_id", FALSE, "none")>>

\* _extract_voter_identification
ExtractVoterIdentification(art, r) == RunSpanSteps(VoterIdentificationSteps, art.spans, r).r

DistrictSteps ==
    <<SpanStep("lblCDName", "congressional_district", FALSE, "none"),
      SpanStep("lblSDName", "senate_district", FALSE, "none"),
      SpanStep("lblLDName", "legislative_district", FALSE, "none"),
      SpanStep("lblCountyName", "jurisdiction", FALSE, "none"),
      SpanStep("lblPrecinct", "precinct", TRUE, "none"),
      SpanStep("lblPrecinctNumber", "precinct_number", FALSE, "none")>>

\* _extract_district_info: the spans, then the list of non-empty custom districts.
ExtractDistrict(art, r) ==
    LET fixed == RunSpanSteps(DistrictSteps, art.spans, r)
        custom == SelectSeq(Locate(art.spans, "lblCustomDistrict"), LAMBDA e : e.text # "")
    IN  IF ~fixed.ok \/ custom = <<>> THEN fixed.r
        ELSE SetField(fixed.r, "custom_districts", [k \in 1..Len(custom) |-> custom[k].text])

\* _extract_vote_history
ExtractVoteHistory(art, r) ==
    RunH6Steps(<<SpanStep("Early Vote Date", "early_vote_date", TRUE, "none")>>, art.h6s, r)

\* _extract_voter_frequency
ExtractVoterFrequency(art, r) ==
    RunH6Steps(<<SpanStep("Voter Regularity General", "voter_regularity_general", TRUE, "none"),
                 SpanStep("Voter Regularity Primary", "voter_regularity_primary", TRUE, "none")>>,
               art.h6s, r)

\* _extract_geographical_info
ExtractGeographical(art, r) ==
    RunH6Steps(<<SpanStep("DMA", "dma", TRUE, "none"),
                 SpanStep("Census Block", "census_block", TRUE, "none"),
                 SpanStep("Turf", "turf", TRUE, "exact")>>,
               art.h6s, r)

\* _extract_notes: the stripped non-empty li texts, stored when there is one.
ExtractNotes(art, r) ==
    LET kept == SelectSeq(art.lis, LAMBDA t : Strip(t) # "")
    IN  IF kept = <<>> THEN r
        ELSE SetField(r, "notes", [k \in 1..Len(kept) |-> Strip(kept[k])])

(***************************************************************************)
(* _extract_generic_info                                                   *)
(***************************************************************************)

\* The class [A-Za-z\s] of a label.
IsLabelCh(c) == IsAlpha(c) \/ c \in Whitespace

LineEnds == {"\n", "\r"}

\* The last position of the run of label characters that starts at p.
LabelRunEnd(t, p) ==
    LET stop == {k \in p..Len(t) : ~IsLabelCh(Ch(t, k))}
    IN  IF stop = {} THEN Len(t) ELSE (CHOOSE k \in stop : \A j \in stop : k <= j) - 1

\* The last position of the run of [^\n\r] characters that starts at p.
ValueRunEnd(t, p) ==
    LET stop == {k \in p..Len(t) : Ch(t, k) \in LineEnds}
    IN  IF stop = {} THEN Len(t) ELSE (CHOOSE k \in stop : \A j \in stop : k <= j) - 1

NoMatch == [matched |-> FALSE]

Match(label, value, last) == [matched |-> TRUE, label |-> label, value |-> value, last |-> last]

\* A match of  ([A-Za-z\s]+):\s*([^\n\r]+)  at p.  The label is the whole run of label
\* characters up to the colon; \s* takes all the whitespace after the colon, and
\* gives back up to the last character that is no line end when the text ends there.
MatchColon(t, p) ==
    LET e == LabelRunEnd(t, p)
        w == SkipWs(t, e + 2)
        back == {k \in (e + 2)..Len(t) : Ch(t, k) \notin LineEnds}
        v == IF w <= Len(t) THEN w ELSE CHOOSE k \in back : \A j \in back : k >= j
    IN  IF p <= Len(t) /\ IsLabelCh(Ch(t, p)) /\ Ch(t, e + 1) = ":" /\ (w <= Len(t) \/ back # {})
        THEN Match(Slice(t, p, e), Slice(t, v, ValueRunEnd(t, v)), ValueRunEnd(t, v))
        ELSE NoMatch

\* A match of  ([A-Za-z\s]+)\n([^\n\r]+)  at p.  The greedy label ends before the last
\* "\n" of its run that is followed by a character that is no line end.
MatchNextLine(t, p) ==
    LET e == LabelRunEnd(t, p)
        breaks == {q \in (p + 1)..e : Ch(t, q) = "\n" /\ q < Len(t) /\ Ch(t, q + 1) \notin LineEnds}
        q == CHOOSE k \in breaks : \A j \in breaks : k >= j
    IN  IF p <= Len(t) /\ IsLabelCh(Ch(t, p)) /\ breaks # {}
        THEN Match(Slice(t, p, q - 1), Slice(t, q + 1, ValueRunEnd(t, q + 1)), ValueRunEnd(t, q + 1))
        ELSE NoMatch

RECURSIVE FindAllColon(_, _)
\* re.findall of the first pattern from position pos: the (label, value) pairs.
FindAllColon(t, pos) ==
    LET hits == {p \in pos..Len(t) : MatchColon(t, p).matched}
    IN  IF hits = {} THEN <<>>
        ELSE LET m == MatchColon(t, CHOOSE p \in hits : \A j \in hits : p <= j)
             IN  <<[label |-> m.label, value |-> m.value]>> \o FindAllColon(t, m.last + 1)

RECURSIVE FindAllNextLine(_, _)
\* re.findall of the second pattern from position pos.
FindAllNextLine(t, pos) ==
    LET hits == {p \in pos..Len(t) : MatchNextLine(t, p).matched}
    IN  IF hits = {} THEN <<>>
        ELSE LET m == MatchNextLine(t, CHOOSE p \in hits : \A j \in hits : p <= j)
             IN  <<[label |-> m.label, value |-> m.value]>> \o FindAllNextLine(t, m.last + 1)

\* The label/value pairs in the order the two loops visit them.
GenericPairs(text) == FindAllColon(text, 1) \o FindAllNextLine(text, 1)

GenericSentinels == {"", "n/a", "none", "null"}

\* The elif chain of lines 1450-1487: the substrings the label must hold, and the
\* attribute read and written.
Branch(needs, field) == [needs |-> needs, field |-> field]

GenericBranches ==
    <<Branch({"first name"}, "first_name"),
      Branch({"middle name"}, "middle_name"),
      Branch({"last name"}, "last_name"),
      Branch({"email"}, "email"),
      Branch({"phone", "home"}, "home_phone"),
      Branch({"phone", "work"}, "work_phone"),
      Branch({"phone", "cell"}, "cell_phone"),
      Branch({"address"}, "address"),
      Branch({"city"}, "city"),
      Branch({"state"}, "state"),
      Branch({"zip"}, "zip"),
      Branch({"party"}, "party_affiliation"),
      Branch({"precinct"}, "precinct"),
      Branch({"voter id"}, "voter_id"),
      Branch({"registration", "date"}, "registration_date"),
      Branch({"birth"}, "birthday"),
      Branch({"gender"}, "gender"),
      Branch({"employer"}, "employer"),
      Branch({"occupation"}, "occupation")>>

\* Mutant: a branch stores the value whether or not its field is already set.
BranchTest_Overwrite(br, label_lower, r) ==
    IF \E n \in br.needs : ~Contains(label_lower, n) THEN "false"
    ELSE IF br.field \notin DetailFields THEN "raises"
    ELSE "true"

\* The condition of one branch on the lower-cased label.  "raises": the branch reads
\* an attribute DetailedVoterRecord does not have (AttributeError).  The birthday
\* branch is  'birthday' in label or ('birth' in label and not record.birthday).
BranchTest(br, label_lower, r) ==
    IF \E n \in br.needs : ~Contains(label_lower, n) THEN "false"
    ELSE IF br.field \notin DetailFields THEN "raises"
    ELSE IF br.field = "birthday" /\ Contains(label_lower, "birthday") THEN "true"
    ELSE IF ~Truthy(r.f[br.field]) THEN "true"
    ELSE "false"

RECURSIVE RunBranches(_, _, _, _)
\* The elif chain on one pair: the first branch whose condition holds stores the value.
RunBranches(branches, label_lower, value, r) ==
    IF branches = <<>> THEN [r |-> r, ok |-> TRUE]
    ELSE LET test == BranchTest(Head(branches), label_lower, r)
         IN  IF test = "raises" THEN [r |-> r, ok |-> FALSE]
             ELSE IF test = "true" THEN [r |-> SetField(r, Head(branches).field, value), ok |-> TRUE]
             ELSE RunBranches(Tail(branches), label_lower, value, r)

\* One pair handled without the test on its value.
GenericPair_NoFilter(pair, r) ==
    RunBranches(GenericBranches, Lower(Strip(pair.label)), Strip(pair.value), r)

\* Lines 1443-1487 for one (label, value) pair.
GenericPair(pair, r) ==
    LET value == Strip(pair.value)
    IN  IF value # "" /\ Lower(value) \notin GenericSentinels
        THEN RunBranches(GenericBranches, Lower(Strip(pair.label)), value, r)
        ELSE [r |-> r, ok |-> TRUE]

RECURSIVE RunGenericPairs(_, _)
\* The loops over the matches; an exception ends the extraction.
RunGenericPairs(pairs, r) ==
    IF pairs = <<>> THEN r
    ELSE LET one == GenericPair(Head(pairs), r)
         IN  IF one.ok THEN RunGenericPairs(Tail(pairs), one.r) ELSE one.r

\* _extract_generic_info.  The two patterns are matched against the same text; the
\* pairs of the first are applied before those of the second.
ExtractGeneric(art, r) == RunGenericPairs(GenericPairs(art.text), r)

\* The detail-page extraction is not running.
DetailIdle ==
    /\ page = [loadFails |-> FALSE, articles |-> <<>>, searchDivs |-> <<>>]
    /\ di = 1
    /\ rec = NewDetailedRecord
    /\ dret = Absent
    /\ dpc = "idle"

\* The row parser is not running.
RowsIdle ==
    /\ table = NoTable
    /\ extract_details = FALSE
    /\ ri = 1
    /\ results = <<>>
    /\ rpc = "idle"
    /\ tabs = 0
    /\ at_results = TRUE

\* No run of main is in progress.
RunIdle ==
    /\ mode = "direct"
    /\ voter_names = <<>>
    /\ row_limit = 0
    /\ sheet = <<>>
    /\ browser = "none"
    /\ url = ""
    /\ submitted = FALSE
    /\ authRet = Absent
    /\ authRaised = FALSE
    /\ ni = 1
    /\ queries = 0
    /\ updated = <<>>
    /\ processed_count = 0
    /\ out = <<>>
    /\ exit = -1
    /\ mpc = "idle"
    /\ name_entries = <<>>
    /\ site = <<>>
    /\ voter_results = <<>>
    /\ all_results = <<>>
    /\ export_format = ""
    /\ exported = Absent
    /\ update_calls = <<>>
    /\ skipped_count = 0

(***************************************************************************)
(* _extract_detailed_voter_info and _extract_article_content               *)
(***************************************************************************)

\* Lines 979-985: the article elements, or the div.search-article elements when the
\* page has no article element.
Sections(p) == IF Len(p.articles) = 0 THEN p.searchDivs ELSE p.articles

\* The choice made on the text as it is, without upper-casing it.
ArticleKind_CaseSensitive(text) ==
    LET u == text
    IN  IF Contains(u, "PERSONAL INFO") THEN "personal"
        ELSE IF Contains(u, "CONTACT INFO") /\ ~Contains(u, "OTHER CONTACT") THEN "contact"
        ELSE IF Contains(u, "VOTER INFO") THEN "voter_info"
        ELSE IF Contains(u, "VOTER IDENTIFICATION") THEN "voter_identification"
        ELSE IF Contains(u, "DISTRICT INFO") THEN "district"
        ELSE IF Contains(u, "VOTE HISTORY") THEN "vote_history"
        ELSE IF Contains(u, "VOTER FREQUENCY") THEN "voter_frequency"
        ELSE IF Contains(u, "GEOGRAPHICAL LOCATION") THEN "geographical"
        ELSE IF Contains(u, "TAGS") THEN "tags"
        ELSE IF Contains(u, "NOTES") THEN "notes"
        ELSE "generic"

\* Lines 1011-1040: the handler chosen from the upper-cased text of the section.
ArticleKind(text) ==
    LET u == Upper(text)
    IN  IF Contains(u, "PERSONAL INFO") THEN "personal"
        ELSE IF Contains(u, "CONTACT INFO") /\ ~Contains(u, "OTHER CONTACT") THEN "contact"
        ELSE IF Contains(u, "VOTER INFO") THEN "voter_info"
        ELSE IF Contains(u, "VOTER IDENTIFICATION") THEN "voter_identification"
        ELSE IF Contains(u, "DISTRICT INFO") THEN "district"
        ELSE IF Contains(u, "VOTE HISTORY") THEN "vote_history"
        ELSE IF Contains(u, "VOTER FREQUENCY") THEN "voter_frequency"
        ELSE IF Contains(u, "GEOGRAPHICAL LOCATION") THEN "geographical"
        ELSE IF Contains(u, "TAGS") THEN "tags"
        ELSE IF Contains(u, "NOTES") THEN "notes"
        ELSE "generic"

\* articles.nth(i) of the loop at lines 990-992.
Article_i == Sections(page)[di]

\* The loop is at a section whose text is read and selects the handler kind.
Dispatch(kind) ==
    /\ dpc = "articles"
    /\ di <= Len(Sections(page))
    /\ ~Article_i.textFails
    /\ ArticleKind(Article_i.text) = kind

\* The section is done with the record as the handler left it.
NextArticle(r) ==
    /\ rec' = r
    /\ di' = di + 1
    /\ UNCHANGED <<page, dret, dpc>>
    /\ UNCHANGED <<rowVars, runVars>>

\* Lines 966-969, 996-999: a wait or a count that raises makes the function return None.
DetailLoadFails ==
    /\ dpc = "start"
    /\ page.loadFails
    /\ dret' = Absent
    /\ dpc' = "done"
    /\ UNCHANGED <<page, di, rec>>
    /\ UNCHANGED <<rowVars, runVars>>

\* Lines 966-988: the page has loaded, the record is created and the sections found.
BeginDetail ==
    /\ dpc = "start"
    /\ ~page.loadFails
    /\ rec' = NewDetailedRecord
    /\ di' = 1
    /\ dpc' = "articles"
    /\ UNCHANGED <<page, dret>>
    /\ UNCHANGED <<rowVars, runVars>>

PersonalInfo == Dispatch("personal") /\ NextArticle(ExtractPersonal(Article_i, rec))

ContactInfo == Dispatch("contact") /\ NextArticle(ExtractContact(Article_i, rec))

VoterInfo == Dispatch("voter_info") /\ NextArticle(ExtractVoterInfo(Article_i, rec))

VoterIdentification ==
    Dispatch("voter_identification") /\ NextArticle(ExtractVoterIdentification(Article_i, rec))

DistrictInfo == Dispatch("district") /\ NextArticle(ExtractDistrict(Article_i, rec))

VoteHistory == Dispatch("vote_history") /\ NextArticle(ExtractVoteHistory(Article_i, rec))

VoterFrequency == Dispatch("voter_frequency") /\ NextArticle(ExtractVoterFrequency(Article_i, rec))

GeographicalLocation == Dispatch("geographical") /\ NextArticle(ExtractGeographical(Article_i, rec))

\* The Tags section handled by _extract_tags, which stores the tag texts.
SkipTags_Extract ==
    Dispatch("tags") /\ NextArticle(IF Article_i.lis = <<>> THEN rec
                                    ELSE SetField(rec, "tags", Article_i.lis))

\* Lines 1029-1032: a Tags section is skipped.
SkipTags == Dispatch("tags") /\ NextArticle(rec)

Notes == Dispatch("notes") /\ NextArticle(ExtractNotes(Article_i, rec))

GenericInfo == Dispatch("generic") /\ NextArticle(ExtractGeneric(Article_i, rec))

\* Lines 1005, 1042-1044: inner_text() raises; the section is given up.
ArticleError ==
    /\ dpc = "articles"
    /\ di <= Len(Sections(page))
    /\ Article_i.textFails
    /\ NextArticle(rec)

\* Line 994: the record is returned.
ReturnDetail ==
    /\ dpc = "articles"
    /\ di > Len(Sections(page))
    /\ dret' = Some(rec)
    /\ dpc' = "done"
    /\ UNCHANGED <<page, di, rec>>
    /\ UNCHANGED <<rowVars, runVars>>

DetailNext ==
    \/ DetailLoadFails \/ BeginDetail
    \/ PersonalInfo \/ ContactInfo \/ VoterInfo \/ VoterIdentification \/ DistrictInfo
    \/ VoteHistory \/ VoterFrequency \/ GeographicalLocation \/ SkipTags \/ Notes
    \/ GenericInfo \/ ArticleError \/ ReturnDetail

(***************************************************************************)
(* Inputs of the detail-page extraction                                    *)
(***************************************************************************)

\* The most sections a detail page holds.
MaxArticles == 2

H6(text, next) == [text |-> text, next |-> next]

PersonalArticles ==
    {[Article("personal-info", "Personal Info\nFirst Name\nAnn\nLast Name\nLee\nBirthday\n1/2/1990")
        EXCEPT !.spans = <<Span("ctl00_lblFirstName", "Ann"), Span("ctl00_lblMiddleName", ""),
                           Span("ctl00_lblLastName", "Lee"), Span("ctl00_lblBirthday", "1/2/1990"),
                           Span("ctl00_lblAge", "36"), Span("ctl00_lblGender", "F")>>],
     [Article("personal-info", "PERSONAL INFO\nAge\n41")
        EXCEPT !.spans = <<Span("ctl00_lblAge", "41")>>],
     [Article("personal-info", "Personal Info\nFirst Name\n\nLast Name\nNo Data Provided")
        EXCEPT !.spans = <<Span("ctl00_lblFirstName", ""), Span("ctl00_lblLastName", "")>>]}

ContactArticles ==
    {[Article("contact-info", "Contact Info\nMobile Phone\n555-0101\nLandline Phone\nNo Data Provided")
        EXCEPT !.phones = <<Container(<<"Mobile Phone">>,
                                      <<Span("rpt_ctl00_lblPhone", "555-0101"), Span("rpt_ctl00_lblTRC", "High")>>),
                            Container(<<"Landline Phone">>,
                                      <<Span("rpt_ctl01_lblPhone", "No Data Provided")>>),
                            Container(<<"Mobile Phone">>,
                                      <<Span("rpt_ctl02_lblPhone", "555-0102")>>)>>,
               !.spans = <<Span("ctl00_lblPrimaryAddress", "1 Main St"),
                           Span("ctl00_lblPrimaryCityStZip", "Troy NY 12180"),
                           Span("ctl00_lblSecondaryAddress", "PO Box 9")>>,
               !.socials = <<Container(<<"Facebook">>, <<Span("rptSocial_ctl00_lblSocial", "No Data Provided")>>),
                             Container(<<"Twitter">>, <<Span("rptSocial_ctl01_lblSocial", "@ann")>>),
                             Container(<<"Instagram">>, <<Span("rptSocial_ctl02_lblSocial", "")>>)>>]}

VoterArticles ==
    {[Article("voter-info", "Voter Info\nRegistration Date\n5/6/2008\nAbsentee Status\nNo Data Provided")
        EXCEPT !.spans = <<Span("ctl00_lblRegistrationStatus", "Active"),
                           Span("ctl00_lblRegistrationDate", "5/6/2008"),
                           Span("ctl00_lblOfficialParty", "R"),
                           Span("ctl00_lblParty", "R"), Span("ctl00_lblRNCCalcParty", "Rep"),
                           Span("ctl00_lblAbsenteeStatus", "No Data Provided"),
                           Span("ctl00_lblEthnicity", "No Data Provided")>>],
     [Article("voter-identification", "Voter Identification\nState Voter ID\nNo Data Provided")
        EXCEPT !.spans = <<Span("ctl00_lblVoterId", "77"),
                           Span("ctl00_lblStateVoterId", "No Data Provided"),
                           Span("ctl00_lblRegistrationId", "No Data Provided")>>],
     [Article("district-info", "District Info\nPrecinct\nWard 3")
        EXCEPT !.spans = <<Span("ctl00_lblCDName", "NY-20"), Span("ctl00_lblPrecinct", "Ward 3"),
                           Span("ctl00_lblPrecinctNumber", "003"),
                           Span("ctl00_lblCustomDistrict1", "Fire 2"),
                           Span("ctl00_lblCustomDistrict2", "")>>],
     [Article("vote-history", "Vote History\nEarly Vote Date\n10/30/2024")
        EXCEPT !.h6s = <<H6("Early Vote Date", Some("10/30/2024"))>>],
     [Article("voter-frequency", "Voter Frequency\nVoter Regularity General\n4 of 4")
        EXCEPT !.h6s = <<H6("Voter Regularity General", Some("4 of 4")),
                         H6("Voter Regularity Primary", Absent)>>],
     [Article("geo", "Geographical Location\nDMA\nAlbany\nTurf\nNo Data Provided")
        EXCEPT !.h6s = <<H6("DMA", Some("Albany")), H6("Turf", Some("No Data Provided"))>>],
     [Article("tags", "Tags\nFirst Name: Tag")
        EXCEPT !.lis = <<"donor">>],
     [Article("notes", "Notes\ncalled twice")
        EXCEPT !.lis = <<" called twice ", " ">>]}

\* Sections no title check recognizes, and one whose text cannot be read.
UnknownArticles ==
    {Article("other", "First Name: Zed\nGender: N/A"),
     Article("other", "Date of Birth: 2/2/1982\nBirthday: 3/4/1980"),
     Article("other", "Last Name: Poe\nEmail: a@b.c\nPrecinct: 9"),
     Article("other", "Middle Name\nQuinn"),
     [Article("other", "") EXCEPT !.textFails = TRUE]}

\* A Personal Info section with two last-name spans: inner_text() on the locator of
\* line 1060 raises after first_name was stored.
TwoLastNames ==
    [Article("personal-info", "Personal Info\nFirst Name\nAnn\nLast Name\nLee\nLast Name\nLea")
        EXCEPT !.spans = <<Span("ctl00_lblFirstName", "Ann"), Span("ctl00_lblLastName", "Lee"),
                           Span("ctl01_lblLastName", "Lea"), Span("ctl00_lblAge", "36")>>]

\* A section the Contact Info test excludes.
OtherContact == Article("other-contact", "Other Contact Info\nFirst Name: Ola")

\* A section whose text holds two titles, Tags and Notes.
NotesOnTags == [Article("notes", "Notes\nsee tags") EXCEPT !.lis = <<"see tags">>]

\* A section of no known title whose values are placeholders but for the last name;
\* the text ends in a value that is one space.
Placeholders == Article("other", "Precinct: NULL \nMiddle Name: n/a\nGender:  None\nLast Name: Nona\nSuffix: ")

\* A Contact Info section whose first mobile container shows an empty number with a
\* reliability, and whose second shows a number without one.
EmptyMobile ==
    [Article("contact-info", "Contact Info\nMobile Phone\n\nMobile Phone\n555-0102")
        EXCEPT !.phones = <<Container(<<"Mobile Phone">>,
                                      <<Span("rpt_ctl00_lblPhone", ""), Span("rpt_ctl00_lblTRC", "High")>>),
                            Container(<<"Mobile Phone">>,
                                      <<Span("rpt_ctl01_lblPhone", "555-0102")>>)>>]

Articles == PersonalArticles \cup ContactArticles \cup VoterArticles \cup UnknownArticles

Page(articles, searchDivs) == [loadFails |-> FALSE, articles |-> articles, searchDivs |-> searchDivs]

\* The detail pages: up to MaxArticles article elements; no article element and one
\* div.search-article; a page whose second of three sections fails; a page with an
\* Other Contact Info section and one whose section names two titles; and a page
\* whose load times out.
Pages ==
    {Page(a, d) : a \in SeqsUpTo(Articles, MaxArticles), d \in {<<>>}}
    \cup {Page(<<>>, <<d>>) : d \in PersonalArticles \cup UnknownArticles}
    \cup {Page(<<a>>, <<d>>) : a \in ContactArticles, d \in PersonalArticles}
    \cup {Page(<<TwoLastNames>>, <<>>),
           Page(<<CHOOSE a \in ContactArticles : TRUE, TwoLastNames,
                  CHOOSE a \in VoterArticles : a.id = "voter-info">>, <<>>)}
    \cup {Page(<<OtherContact>>, <<>>), Page(<<NotesOnTags>>, <<>>), Page(<<Placeholders>>, <<>>),
           Page(<<EmptyMobile>>, <<>>)}
    \cup {[Page(<<>>, <<>>) EXCEPT !.loadFails = TRUE]}

DetailInit ==
    /\ page \in Pages
    /\ di = 1
    /\ rec = NewDetailedRecord
    /\ dret = Absent
    /\ dpc = "start"
    /\ RowsIdle
    /\ RunIdle

SpecDetail == DetailInit /\ [][DetailNext]_vars

(***************************************************************************)
(* Inputs of the row parser                                                *)
(***************************************************************************)

\* The most rows a results table holds.
MaxRows == 2

Row(th, text, html) ==
    [th |-> th, text |-> text, html |-> html, textFails |-> FALSE, htmlFails |-> FALSE,
     visit |-> Visit(FALSE, FALSE)]

HeaderRows ==
    {Row(TRUE, "Name\tAddress\tCity", ""),
     Row(TRUE, "Name\nAddress", "")}

BodyRows ==
    {Row(FALSE, " \n ", ""),
     Row(FALSE, "Ann Lee\n", "OpenUserWindow(5)"),
     Row(FALSE, "Ann Lee\n1 Main St\nSpringfield IL 62704", "<a onclick=\"OpenUserWindow(12345)\">"),
     Row(FALSE, "View\nBob Ray\n2 Oak Av\nNew York NY 10001\n(555) 111-2222\nDOB: 1/2/1990\nCalculated Party: R",
         "OpenUserWindow ( 7 ) OpenUserWindow(8)"),
     Row(FALSE, "Cy Poe\n3 Elm\nTroy NY", "<td>Cy Poe</td>"),
     Row(FALSE, "Di Fox\n\nAlbany NY 12207\n(555) 1\n(555) 2", "OpenUserWindow() OpenUserWindow(99)"),
     [Row(FALSE, "Ed Guy\n(555) 4\nDOB: 1/1/1970", "OpenUserWindow(3)") EXCEPT !.htmlFails = TRUE],
     [Row(FALSE, "Flo Hay\n5 Fir", "") EXCEPT !.textFails = TRUE]}

\* The results tables: with a tbody (the header in a thead, in the tbody, or missing),
\* or without one (the header is the first row).
Tables ==
    {[visible |-> TRUE, hasTbody |-> TRUE, head |-> h, body |-> b] :
        h \in {<<>>, <<Row(TRUE, "Name\tAddress\tCity", "")>>}, b \in SeqsUpTo(BodyRows, MaxRows)}
    \cup {[visible |-> TRUE, hasTbody |-> TRUE, head |-> <<>>, body |-> <<h>> \o b] :
        h \in HeaderRows, b \in SeqsUpTo(BodyRows, MaxRows)}
    \cup {[visible |-> TRUE, hasTbody |-> FALSE, head |-> <<h>>, body |-> b] :
        h \in {Row(TRUE, "Name\nAddress", "")}, b \in SeqsUpTo(BodyRows, MaxRows)}

RowsInit ==
    /\ table \in Tables \cup {NoTable}
    /\ extract_details \in BOOLEAN
    /\ ri = 1
    /\ results = <<>>
    /\ rpc = "find"
    /\ tabs = 0
    /\ at_results = TRUE
    /\ DetailIdle
    /\ RunIdle

SpecRows == RowsInit /\ [][RowsNext]_vars

(***************************************************************************)
(* Properties of the row parser                                            *)
(***************************************************************************)

OptionalSummaryFields == {"phone", "date_of_birth", "calculated_party", "view_voter_url",
                          "voter_id", "precinct", "status"}

\* C4: in every record the row parser produces, an optional field for which no data
\* was observed is unset: no optional field holds the empty string.
C4_NoEmptyStringInSummary ==
    \A k \in 1..Len(results) : \A f \in OptionalSummaryFields : results[k][f] # Some("")

\* The markup h holds, at position p, a call OpenUserWindow(d) with d a run of digits
\* (whitespace allowed around the parentheses and the digits).
IsCallAt(h, p, d) ==
    /\ d # ""
    /\ \A k \in 1..Len(d) : Ch(d, k) \in Digits
    /\ \E a \in (p + 14)..Len(h) : \E b \in (a + 1)..Len(h) : \E e \in (b + Len(d))..Len(h) :
          /\ Slice(h, p, p + 13) = "OpenUserWindow"
          /\ \A k \in (p + 14)..(a - 1) : Ch(h, k) \in Whitespace
          /\ Ch(h, a) = "("
          /\ \A k \in (a + 1)..(b - 1) : Ch(h, k) \in Whitespace
          /\ Slice(h, b, b + Len(d) - 1) = d
          /\ \A k \in (b + Len(d))..(e - 1) : Ch(h, k) \in Whitespace
          /\ Ch(h, e) = ")"

\* The digit runs of h.
DigitRuns(h) ==
    {Slice(h, mn[1], mn[2]) :
        mn \in {x \in (1..Len(h)) \X (1..Len(h)) :
                   x[1] <= x[2] /\ \A k \in x[1]..x[2] : Ch(h, k) \in Digits}}

HasCall(h) == \E p \in 1..Len(h) : \E d \in DigitRuns(h) : IsCallAt(h, p, d)

\* d is the argument of the first call of h.
IsFirstCall(h, d) ==
    \E p \in 1..Len(h) :
        /\ IsCallAt(h, p, d)
        /\ \A q \in 1..(p - 1) : \A d2 \in DigitRuns(h) : ~IsCallAt(h, q, d2)

\* C6: for every result row whose markup can be read: with an OpenUserWindow(<digits>)
\* call in the markup the record's detail reference is the detail URL ending in
\* id=<digits> of the first call; with no call the reference is unset, and the
\* record is produced all the same.
C6_DetailReference ==
    [][(rpc = "rows" /\ ri' = ri + 1 /\ ~Rows(table)[ri].textFails /\ ~Rows(table)[ri].htmlFails
        /\ ~RowTooShort(RowLines(Rows(table)[ri].text)))
       => /\ Len(results') = Len(results) + 1
          /\ LET h == Rows(table)[ri].html
                 ref == Last(results').view_voter_url
             IN  IF HasCall(h)
                 THEN \E d \in DigitRuns(h) : IsFirstCall(h, d) /\ ref = Some(DetailUrlPrefix \o d)
                 ELSE ref = Absent]_vars

\* The lines of a row's text that hold a non-whitespace character.
NonEmptyLines(text) ==
    LET all == SplitOn(text, "\n")
    IN  {k \in 1..Len(all) : \E j \in 1..Len(all[k]) : Ch(all[k], j) \notin Whitespace}

\* A data row: not the header row, and at least two non-empty lines.
IsDataRow(row) == ~row.th /\ Cardinality(NonEmptyLines(row.text)) >= 2

RECURSIVE SelectRows(_)
\* The data rows whose text can be read, in row order.
SelectRows(rows) ==
    IF rows = <<>> THEN <<>>
    ELSE (IF IsDataRow(Head(rows)) /\ ~Head(rows).textFails THEN <<Head(rows)>> ELSE <<>>)
         \o SelectRows(Tail(rows))

\* C7: _extract_results returns exactly one record per data row, in row order, and
\* none for the header row, for blank rows or for rows with fewer than two non-empty
\* lines.
C7_OneRecordPerDataRow ==
    (rpc = "done" /\ table # NoTable) =>
        LET data == SelectRows(table.head \o table.body)
        IN  /\ Len(results) = Len(data)
            /\ \A k \in 1..Len(results) :
                  \E j \in NonEmptyLines(data[k].text) :
                      results[k].name = Strip(SplitOn(data[k].text, "\n")[j])

\* The row an EmitRow step parses, its lines, and the record the step appends.
EmittedLines == RowLines(Rows(table)[ri].text)

\* The marker type of a trailing line, as the elif chain of lines 782-787 tells them apart.
MarkerType(line) ==
    IF StartsWith(line, "(") THEN "phone"
    ELSE IF Contains(line, "DOB:") THEN "dob"
    ELSE IF Contains(line, "Calculated Party:") THEN "party"
    ELSE "none"

\* The value a single marker line gives its field.
MarkerValue(line) ==
    IF MarkerType(line) = "phone" THEN line
    ELSE IF MarkerType(line) = "dob" THEN Strip(Last(SplitOn(line, "DOB:")))
    ELSE Strip(Last(SplitOn(line, ":")))

\* The positions of the lines from position from on that have the marker type.
MarkerLines(lines, from, type) == {k \in from..Len(lines) : MarkerType(lines[k]) = type}

\* C19: when the trailing lines of a row hold several lines of one marker type, the
\* record keeps the value of the first such line of each type.
C19_FirstMarkerWins ==
    [][EmitRow =>
        LET lines == EmittedLines
            from == StartIdx(lines) + 4
            r == Last(results')
            first(type) == CHOOSE k \in MarkerLines(lines, from, type) :
                               \A j \in MarkerLines(lines, from, type) : k <= j
        IN  /\ MarkerLines(lines, from, "phone") # {} => r.phone = Some(MarkerValue(lines[first("phone")]))
            /\ MarkerLines(lines, from, "dob") # {} => r.date_of_birth = Some(MarkerValue(lines[first("dob")]))
            /\ MarkerLines(lines, from, "party") # {}
                   => r.calculated_party = Some(MarkerValue(lines[first("party")]))]_vars

\* The first line of the row is an action-button label, whatever its case, or blank.
FirstLineIsAction(lines) ==
    \/ \E label \in ActionLabels : Lower(lines[1]) = label
    \/ \A k \in 1..Len(lines[1]) : Ch(lines[1], k) \in Whitespace

\* C20: with an action-button label or a blank as first line, name, address and
\* city/state/zip come from lines 2, 3 and 4 and the marker scan starts at line 5;
\* otherwise they come from lines 1, 2 and 3 and the scan starts at line 4.
C20_ActionColumnOffset ==
    [][EmitRow =>
        LET lines == EmittedLines
            off == IF FirstLineIsAction(lines) THEN 1 ELSE 0
            line(k) == IF k <= Len(lines) THEN lines[k] ELSE ""
            r == Last(results')
        IN  /\ r.name = Strip(line(off + 1))
            /\ r.address = Strip(line(off + 2))
            /\ [city |-> r.city, state |-> r.state, zip_code |-> r.zip_code]
                   = ParseCityStateZip(line(off + 3))
            /\ r.phone # Some("") <=> MarkerLines(lines, off + 4, "phone") # {}
            /\ MarkerLines(lines, off + 4, "dob") = {} => r.date_of_birth = Some("")
            /\ MarkerLines(lines, off + 4, "party") = {} => r.calculated_party = Some("")]_vars

\* A row that starts with the action label "View" was parsed from its lines 2 to 4,
\* with the phone line found from line 5 on.
C20_Witness ==
    /\ rpc = "done"
    /\ table # NoTable
    /\ Len(results) = 1
    /\ Len(Rows(table)) = 1
    /\ Lower(RowLines(Rows(table)[1].text)[1]) = "view"
    /\ results[1].name = "Bob Ray"
    /\ results[1].address = "2 Oak Av"
    /\ results[1].zip_code = "10001"
    /\ results[1].phone = Some("(555) 111-2222")

\* The rows of the loop that are parsed into a record: their text is read and holds
\* two lines or more.
ParsedRows ==
    {j \in StartRow(table)..Len(Rows(table)) :
        ~Rows(table)[j].textFails /\ ~RowTooShort(RowLines(Rows(table)[j].text))}

\* C24: when parsing row i raises, no record is produced for row i, the records
\* produced before it are kept, and the loop goes on: every later row is still
\* parsed, so that the list returned holds, in row order, the record of every row
\* that parses, those after a failing row included.
C24_RowFaultIsolated ==
    /\ [][(rpc = "rows" /\ ri <= Len(Rows(table)) /\ Rows(table)[ri].textFails) =>
            /\ results' = results
            /\ ri' = ri + 1
            /\ rpc' = "rows"]_vars
    /\ [][Len(results') >= Len(results) /\ SubSeq(results', 1, Len(results)) = results]_vars
    /\ [](rpc = "done" /\ table # NoTable =>
            /\ Len(results) = Cardinality(ParsedRows)
            /\ \A j \in ParsedRows :
                  LET k == Cardinality({i \in ParsedRows : i <= j})
                  IN  /\ results[k].name = SummaryRecord(Rows(table)[j], Absent).name
                      /\ results[k].address = SummaryRecord(Rows(table)[j], Absent).address)

\* The text of the first row could not be read; the second row gave the only record.
C24_Witness ==
    /\ rpc = "done"
    /\ table # NoTable
    /\ table.hasTbody
    /\ Len(table.body) = 2
    /\ table.body[1].textFails
    /\ Len(results) = 1
    /\ results[1].name = "Bob Ray"

(***************************************************************************)
(* The city/state/zip line, over generated lines                           *)
(***************************************************************************)

\* The longest generated city/state/zip line.
MaxCszLen == 7

CszAlphabet == {"a", "b", " "}

RECURSIVE StrsUpTo(_, _)
\* The strings over alphabet A of length at most n.
StrsUpTo(A, n) ==
    IF n = 0 THEN {""}
    ELSE LET shorter == StrsUpTo(A, n - 1)
         IN  shorter \cup {t \o c : t \in {u \in shorter : Len(u) = n - 1}, c \in A}

CszLines == StrsUpTo(CszAlphabet, MaxCszLen) \cup {"Springfield IL 62704", "New York NY 10001"}

CszPrefix == "Ann Lee\n1 Main St\n"

\* One table row whose third line is a generated city/state/zip line.
CszInit ==
    /\ \E csz \in CszLines :
          table = [visible |-> TRUE, hasTbody |-> TRUE, head |-> <<>>,
                   body |-> <<Row(FALSE, CszPrefix \o csz, "")>>]
    /\ extract_details = FALSE
    /\ ri = 1
    /\ results = <<>>
    /\ rpc = "find"
    /\ tabs = 0
    /\ at_results = TRUE
    /\ DetailIdle
    /\ RunIdle

CszNext == FindResultsTable \/ EmitRow \/ ReturnResults

SpecCsz == CszInit /\ [][CszNext]_vars

\* The number of whitespace-delimited tokens of a line.
TokenCount(line) ==
    Cardinality({k \in 1..Len(line) :
        Ch(line, k) \notin Whitespace /\ (k = 1 \/ Ch(line, k - 1) \in Whitespace)})

NoWhitespace(t) == t # "" /\ \A k \in 1..Len(t) : Ch(t, k) \notin Whitespace

RECURSIVE CollapseRuns(_)
\* t with every run of whitespace replaced by one space.
CollapseRuns(t) ==
    IF t = "" THEN ""
    ELSE IF Ch(t, 1) \in Whitespace
         THEN (IF Ch(t, 2) \in Whitespace THEN "" ELSE " ") \o CollapseRuns(Tail(t))
         ELSE Ch(t, 1) \o CollapseRuns(Tail(t))

\* The tokens of a line joined by single spaces.
Normalized(line) == CollapseRuns(Strip(line))

\* The city/state/zip line of the generated row.
CszLine == Slice(table.body[1].text, Len(CszPrefix) + 1, Len(table.body[1].text))

\* C8: for every city/state/zip line with at least three whitespace-delimited tokens
\* the row parser sets zip to the last token, state to the second-to-last token and
\* city to the earlier tokens joined by single spaces: zip and state are single
\* tokens, and city, state and zip joined by spaces are the line's tokens in order.
\* "New York NY 10001" gives the city "New York".
C8_CityStateZip ==
    (rpc = "done" /\ TokenCount(CszLine) >= 3) =>
        /\ Len(results) = 1
        /\ LET r == results[1]
           IN  /\ NoWhitespace(r.zip_code)
               /\ NoWhitespace(r.state)
               /\ r.city # "" /\ r.city = Normalized(r.city)
               /\ r.city \o " " \o r.state \o " " \o r.zip_code = Normalized(CszLine)
               /\ (CszLine = "New York NY 10001" => r.city = "New York")

\* A line with a two-word city has been parsed.
C8_Witness ==
    /\ rpc = "done"
    /\ TokenCount(CszLine) = 4
    /\ Len(results) = 1
    /\ results[1].city = "New York"
    /\ results[1].state = "NY"
    /\ results[1].zip_code = "10001"

(***************************************************************************)
(* Properties of the detail-page extraction                                *)
(***************************************************************************)

\* C1: the generic fallback extractor never changes a field of the record that held a
\* value before it ran on a section; it only fills fields that were unset.
C1_GenericKeepsSetFields ==
    [][GenericInfo => \A x \in DetailFields : Truthy(rec.f[x]) => rec'.f[x] = rec.f[x]]_vars

\* The section is handled as Personal Info and stores a non-empty first name.
YieldsPersonalFirstName(art) ==
    /\ ~art.textFails
    /\ ArticleKind(art.text) = "personal"
    /\ Truthy(ExtractPersonal(art, NewDetailedRecord).f["first_name"])

\* The section is unrecognized and its generic extraction stores a first name.
YieldsGenericFirstName(art) ==
    /\ ~art.textFails
    /\ ArticleKind(art.text) = "generic"
    /\ Truthy(ExtractGeneric(art, NewDetailedRecord).f["first_name"])

\* The positions of the sections handled as Personal Info.
PersonalSections(secs) ==
    {k \in 1..Len(secs) : ~secs[k].textFails /\ ArticleKind(secs[k].text) = "personal"}

\* C2: when the page has one Personal Info section, which yields a first name, and an
\* unrecognized section whose generic extraction would yield a first name too, the
\* returned record's first_name is the Personal Info value in either order of the two.
C2_PersonalFirstNameWins ==
    (dpc = "done" /\ dret # Absent) =>
        LET secs == Sections(page)
        IN  \A p \in PersonalSections(secs) :
                (/\ PersonalSections(secs) = {p}
                 /\ YieldsPersonalFirstName(secs[p])
                 /\ \E g \in 1..Len(secs) : YieldsGenericFirstName(secs[g]))
                => dret[1].f["first_name"] = ExtractPersonal(secs[p], NewDetailedRecord).f["first_name"]

\* A record was returned for a page whose generic first-name section comes after its
\* Personal Info section, and first_name is the Personal Info value, not the generic one.
C2_Witness ==
    /\ dpc = "done"
    /\ dret # Absent
    /\ Len(page.articles) = 2
    /\ YieldsPersonalFirstName(page.articles[1])
    /\ YieldsGenericFirstName(page.articles[2])
    /\ dret[1].f["first_name"] = Some("Ann")
    /\ ExtractGeneric(page.articles[2], NewDetailedRecord).f["first_name"] = Some("Zed")

\* The fields the claim names as sentinel-filtered.
SentinelFilteredFields ==
    {"mobile_phone", "landline_phone", "facebook", "instagram", "twitter",
     "gopdc_voter_key", "rnc_client_id", "state_voter_id", "jurisdictional_voter_id",
     "rnc_registration_id"}

\* C3: in a returned record no phone, social-media or identification-number field holds
\* a value that is, or starts with, the placeholder "No Data Provided".
C3_NoSentinelStored ==
    (dpc = "done" /\ dret # Absent) =>
        \A x \in SentinelFilteredFields :
            dret[1].f[x] # Absent => ~StartsWith(dret[1].f[x][1], "No Data Provided")

\* Line 924: a page is taken for a detail page when it has an article#personal-info.
IsDetailPage(p) == \E k \in 1..Len(p.articles) : p.articles[k].id = "personal-info"

\* C5: every record returned for a detail page has a non-empty display name.
C5_DisplayNamePresent ==
    (dpc = "done" /\ dret # Absent /\ IsDetailPage(page)) => dret[1].name # ""

\* The steps of the handler of a section, for the handlers made of span steps only.
HandlerSteps(art) ==
    LET kind == ArticleKind(art.text)
    IN  CASE kind = "personal" -> PersonalNameSteps \o PersonalOtherSteps
          [] kind = "voter_info" -> VoterInfoSteps
          [] kind = "voter_identification" -> VoterIdentificationSteps
          [] OTHER -> <<>>

\* The text of the section cannot be read, or a step of its handler raises: a
\* locator without .first that matches several spans.
SectionRaises(art) ==
    \/ art.textFails
    \/ LET steps == HandlerSteps(art)
       IN  \E k \in 1..Len(steps) : ~steps[k].first /\ Len(Locate(art.spans, steps[k].key)) > 1

\* The fields the handler of the section stores.
HandlerFields(art) == LET steps == HandlerSteps(art) IN {steps[k].field : k \in 1..Len(steps)}

Titles ==
    <<[title |-> "PERSONAL INFO", kind |-> "personal"],
      [title |-> "CONTACT INFO", kind |-> "contact"],
      [title |-> "VOTER INFO", kind |-> "voter_info"],
      [title |-> "VOTER IDENTIFICATION", kind |-> "voter_identification"],
      [title |-> "DISTRICT INFO", kind |-> "district"],
      [title |-> "VOTE HISTORY", kind |-> "vote_history"],
      [title |-> "VOTER FREQUENCY", kind |-> "voter_frequency"],
      [title |-> "GEOGRAPHICAL LOCATION", kind |-> "geographical"],
      [title |-> "TAGS", kind |-> "tags"],
      [title |-> "NOTES", kind |-> "notes"]>>

\* The title occurs in the text, ignoring case: it occurs in the upper-cased text u.
Occurs(title, u) == \E p \in 1..(Len(u) - Len(title) + 1) : Slice(u, p, p + Len(title) - 1) = title

\* The handler of the first title of the list that occurs in the text, the generic
\* one when none does.
FirstTitle(text) ==
    LET u == Upper(text)
        hits == {k \in 1..Len(Titles) : Occurs(Titles[k].title, u)}
    IN  IF hits = {} THEN "generic" ELSE Titles[CHOOSE k \in hits : \A j \in hits : k <= j].kind

\* The same, a Contact Info title counting only in a text without "Other Contact".
FirstTitleButOtherContact(text) ==
    LET u == Upper(text)
        hits == {k \in 1..Len(Titles) :
                    /\ Occurs(Titles[k].title, u)
                    /\ Titles[k].kind = "contact" => ~Occurs("OTHER CONTACT", u)}
    IN  IF hits = {} THEN "generic" ELSE Titles[CHOOSE k \in hits : \A j \in hits : k <= j].kind

\* The step of the loop that runs the handler of the kind on the current section.
HandlerStep(kind) ==
    CASE kind = "personal" -> PersonalInfo
      [] kind = "contact" -> ContactInfo
      [] kind = "voter_info" -> VoterInfo
      [] kind = "voter_identification" -> VoterIdentification
      [] kind = "district" -> DistrictInfo
      [] kind = "vote_history" -> VoteHistory
      [] kind = "voter_frequency" -> VoterFrequency
      [] kind = "geographical" -> GeographicalLocation
      [] kind = "tags" -> SkipTags
      [] kind = "notes" -> Notes
      [] OTHER -> GenericInfo

\* The loop is at a section whose text can be read.
AtReadableSection == dpc = "articles" /\ di <= Len(Sections(page)) /\ ~Article_i.textFails

\* C21: for every section text the one handler that runs is that of the first title,
\* in the fixed order, that occurs in the text ignoring case, and the generic
\* extractor runs exactly when no title occurs.
C21_FirstTitleDispatch ==
    [][AtReadableSection => HandlerStep(FirstTitle(Article_i.text))]_vars

\* C21, amended: as above, but a text that holds "Other Contact" is never handled as
\* Contact Info: it goes to the handler of the next title that occurs, or to the
\* generic extractor.
C21_FirstTitleDispatchButOtherContact ==
    [][AtReadableSection => HandlerStep(FirstTitleButOtherContact(Article_i.text))]_vars

\* An "Other Contact Info" section went to the generic extractor, which stored its
\* first name.
C21_Witness ==
    /\ dpc = "done"
    /\ dret # Absent
    /\ Len(page.articles) = 1
    /\ Occurs("CONTACT INFO", Upper(page.articles[1].text))
    /\ Occurs("OTHER CONTACT", Upper(page.articles[1].text))
    /\ dret[1].f["first_name"] = Some("Ola")

\* C22: a section dispatched as Tags leaves the record as it was, and no record the
\* extraction returns has its tags field set.
C22_TagsSkipped ==
    /\ [][(AtReadableSection /\ ArticleKind(Article_i.text) = "tags") => rec' = rec]_vars
    /\ [](rec.f["tags"] = Absent /\ (dret # Absent => dret[1].f["tags"] = Absent))

\* A page whose only section is a Tags section with a tag was extracted.
C22_Witness ==
    /\ dpc = "done"
    /\ dret # Absent
    /\ Len(page.articles) = 1
    /\ ArticleKind(page.articles[1].text) = "tags"
    /\ page.articles[1].lis # <<>>
    /\ dret[1] = NewDetailedRecord

\* The loop is at a section that goes to the generic extractor.
AtGenericSection == AtReadableSection /\ ArticleKind(Article_i.text) = "generic"

\* The value is empty after trimming, or is n/a, none or null in any letter case.
IsPlaceholder(value) ==
    LET v == Strip(value)
    IN  v = "" \/ Lower(v) = "n/a" \/ Lower(v) = "none" \/ Lower(v) = "null"

\* C25: the generic extractor never stores a value that after trimming is empty or
\* equals n/a, none or null ignoring case: every field the extractor changes holds
\* the trimmed value of a pair of the section that is no such value, a pair with such
\* a value leaves the record as it is, and so does a section of such pairs only.
C25_GenericSkipsPlaceholders ==
    [][AtGenericSection =>
        LET pairs == GenericPairs(Article_i.text)
        IN  /\ \A f \in DetailFields :
                  rec'.f[f] # rec.f[f] =>
                      \E k \in 1..Len(pairs) :
                          /\ ~IsPlaceholder(pairs[k].value)
                          /\ rec'.f[f] = Some(Strip(pairs[k].value))
            /\ \A k \in 1..Len(pairs) :
                  IsPlaceholder(pairs[k].value) =>
                      /\ GenericPair(pairs[k], rec).r = rec
                      /\ GenericPair(pairs[k], rec').r = rec'
            /\ (\A k \in 1..Len(pairs) : IsPlaceholder(pairs[k].value)) => rec' = rec]_vars

\* The section of placeholders was read: of its five pairs only the last name is stored.
C25_Witness ==
    /\ dpc = "done"
    /\ dret # Absent
    /\ page.articles = <<Placeholders>>
    /\ Len(GenericPairs(Placeholders.text)) >= 5
    /\ dret[1] = SetField(NewDetailedRecord, "last_name", "Nona")

RECURSIVE EachPairApplied(_, _)
\* The record after every pair was handled on its own, in order, whatever became of
\* the pairs before it.
EachPairApplied(pairs, r) ==
    IF pairs = <<>> THEN r ELSE EachPairApplied(Tail(pairs), GenericPair(Head(pairs), r).r)

\* The label of the pair belongs to no branch that stores into a field of the record.
NoSettableField(pair, r) ==
    \A k \in 1..Len(GenericBranches) :
        BranchTest(GenericBranches[k], Lower(Strip(pair.label)), r) # "true"

\* C28: the generic extractor handles each label/value pair independently: a pair
\* whose label matches no settable field (Email, Address, City, Employer) leaves the
\* record unchanged and does not prevent the later pairs of the section from being
\* processed: the record after the section is the one every pair, handled in order,
\* gives.
C28_GenericPairsIndependent ==
    [][AtGenericSection =>
        LET pairs == GenericPairs(Article_i.text)
        IN  /\ \A k \in 1..Len(pairs) :
                  NoSettableField(pairs[k], rec) => GenericPair(pairs[k], rec).r = rec
            /\ rec' = EachPairApplied(pairs, rec)]_vars

\* The loop is at a section that goes to the contact extractor.
AtContactSection == AtReadableSection /\ ArticleKind(Article_i.text) = "contact"

\* The phone type of a container, as lines 1118 and 1123 tell them apart on the
\* text of its first h6.
PhoneTypeOf(c) ==
    IF c.h6 = <<>> THEN "none"
    ELSE IF Contains(c.h6[1], "Mobile Phone") THEN "mobile_phone"
    ELSE IF Contains(c.h6[1], "Landline Phone") THEN "landline_phone"
    ELSE "none"

\* The containers of the type that show a number: one that is not empty and does not
\* start with the placeholder.
NumberedContainers(cs, type) ==
    {k \in 1..Len(cs) :
        /\ PhoneTypeOf(cs[k]) = type
        /\ Locate(cs[k].spans, "lblPhone") # <<>>
        /\ Locate(cs[k].spans, "lblPhone")[1].text # ""
        /\ ~StartsWith(Locate(cs[k].spans, "lblPhone")[1].text, "No Data")}

\* Every container holds at most one number span and one reliability span.
WellFormedPhones(cs) ==
    \A k \in 1..Len(cs) :
        Len(Locate(cs[k].spans, "lblPhone")) <= 1 /\ Len(Locate(cs[k].spans, "lblTRC")) <= 1

\* C29: after the contact extraction over the phone containers of a section, on a
\* record without phones, mobile_phone_reliability is set only if mobile_phone is set,
\* and landline likewise; the phone stored is the number of the first container of its
\* type that shows a number, and the reliability stored is the one of that same
\* container (none when the container shows none).
C29_ReliabilityFromSameContainer ==
    [][(AtContactSection /\ WellFormedPhones(Article_i.phones)) =>
        \A type \in {"mobile_phone", "landline_phone"} :
            LET cs == Article_i.phones
                numbered == NumberedContainers(cs, type)
                first == CHOOSE k \in numbered : \A j \in numbered : k <= j
                trc == Locate(cs[first].spans, "lblTRC")
                rel == type \o "_reliability"
            IN  (~Truthy(rec.f[type]) /\ ~Truthy(rec.f[rel])) =>
                    /\ Truthy(rec'.f[rel]) => Truthy(rec'.f[type])
                    /\ IF numbered = {}
                       THEN ~Truthy(rec'.f[type]) /\ ~Truthy(rec'.f[rel])
                       ELSE /\ rec'.f[type] = Some(Locate(cs[first].spans, "lblPhone")[1].text)
                            /\ IF trc # <<>> /\ trc[1].text # ""
                               THEN rec'.f[rel] = Some(trc[1].text)
                               ELSE ~Truthy(rec'.f[rel])]_vars

(***************************************************************************)
(* The row parser with detail extraction                                   *)
(***************************************************************************)

\* The answers of the site to a detail visit: no button; a button that opens a tab; a
\* button that navigates the results tab; and for a visit that gets as far: a
\* navigation that times out, a page without article#personal-info (in a new tab, in
\* the results tab, or the results page itself after a click without effect), an
\* extraction that returns nothing, a wait after go_back() that times out.
Visits ==
    {Visit(FALSE, FALSE), Visit(TRUE, TRUE), Visit(TRUE, FALSE),
     [Visit(TRUE, TRUE) EXCEPT !.load_ok = FALSE],
     [Visit(TRUE, TRUE) EXCEPT !.marker = FALSE],
     [Visit(TRUE, FALSE) EXCEPT !.marker = FALSE],
     [Visit(TRUE, FALSE) EXCEPT !.navigates = FALSE, !.marker = FALSE],
     [Visit(TRUE, FALSE) EXCEPT !.extracted = FALSE],
     [Visit(TRUE, FALSE) EXCEPT !.back_ok = FALSE]}

\* The rows: one with and one without an OpenUserWindow call in its markup, with each
\* answer of the site; a row that is too short; a row whose text cannot be read.
VisitRows ==
    {[Row(FALSE, "Ann Lee\n1 Main St\nTroy NY 12180", "<a onclick=\"OpenUserWindow(12)\">")
        EXCEPT !.visit = v] : v \in Visits \ {Visit(TRUE, TRUE), Visit(TRUE, FALSE)}}
    \cup {[Row(FALSE, "Bob Ray\n2 Oak Av\nTroy NY 12180", "<a id=\"ViewVoter\">")
        EXCEPT !.visit = v] : v \in Visits}
    \cup {Row(FALSE, "Cy Poe", ""),
          [Row(FALSE, "Di Fox\n5 Fir", "") EXCEPT !.textFails = TRUE]}

VisitInit ==
    /\ table \in {[visible |-> TRUE, hasTbody |-> TRUE, head |-> <<>>, body |-> b] :
                    b \in SeqsUpTo(VisitRows, MaxRows)} \cup {NoTable}
    /\ extract_details = TRUE
    /\ ri = 1
    /\ results = <<>>
    /\ rpc = "find"
    /\ tabs = 0
    /\ at_results = TRUE
    /\ DetailIdle
    /\ RunIdle

SpecVisit == VisitInit /\ [][RowsNext]_vars

\* C13: when the detail extraction for a row ends, whatever its outcome, every tab
\* opened for the row is closed and a results tab that navigated has navigated back:
\* the results tab alone is open, on the results page, when the next row is parsed.
C13_VisitLeavesResultsTabOnly ==
    [][EmitRow => (tabs' = 0 /\ at_results')]_vars

\* The row has text and at least two lines, one of them not blank.
Parsable(row) == ~row.textFails /\ ~RowTooShort(RowLines(row.text))

\* The visit of the row reaches a page.
ReachesPage(row) == (ViewVoterUrl(row) # "" \/ row.visit.button) /\ row.visit.load_ok

\* C14: when the page reached for a row holds no article#personal-info, the summary
\* record of the row is emitted without detailed_info and the rows after it are still
\* parsed: the results hold one record for every row that can be parsed.
C14_NotDetailPageKeepsSummary ==
    /\ [][(EmitRow /\ ReachesPage(Rows(table)[ri]) /\ ~Rows(table)[ri].visit.marker) =>
            results' = Append(results, SummaryRecord(Rows(table)[ri], Absent))]_vars
    /\ []((rpc = "done" /\ table # NoTable
            /\ \A k \in 1..Len(Rows(table)) : Rows(table)[k].visit.load_ok) =>
          Len(results) = Cardinality({k \in StartRow(table)..Len(Rows(table)) :
                                        Parsable(Rows(table)[k])}))

(***************************************************************************)
(* _authenticate                                                           *)
(***************************************************************************)

\* GOPVoterLookup.base_url
base_url == "https://www.gopdatacenter.com/rnc/RecordLookup/RecordLookup.aspx"

\* The awaited calls of _authenticate in order: wait_for_selector, fill, fill, click,
\* wait_for_load_state.
AuthCalls == <<"wait_for_selector", "fill_username", "fill_password", "click", "wait_for_load_state">>

\* What the calls raise: Playwright's TimeoutError and Error.
PageErrors == {"TimeoutError", "Error"}

\* The exception classes `except Exception` catches.
CaughtByExceptException == {"TimeoutError", "Error", "Exception"}

\* _authenticate on a page at urlBefore.  failsAt: the position in AuthCalls of the call
\* that raises error, 0 when none does; after: the URL the site leaves the page at once
\* the form is submitted.
Authenticate(urlBefore, failsAt, error, after) ==
    LET clicked == failsAt = 0 \/ failsAt > 4
        url_now == IF clicked THEN after ELSE urlBefore
        ok == failsAt = 0 /\ Contains(url_now, "RecordLookup.aspx")
    IN  [ret |-> IF failsAt # 0 /\ error \notin CaughtByExceptException THEN Absent ELSE Some(ok),
         raised |-> failsAt # 0 /\ error \notin CaughtByExceptException,
         submitted |-> clicked,
         url |-> url_now,
         out |-> IF failsAt # 0 THEN <<"Authentication error: " \o error>>
                 ELSE IF ok THEN <<>> ELSE <<"Authentication failed">>]

(***************************************************************************)
(* _search_voter                                                           *)
(***************************************************************************)

\* The ways the name field is filled, in the order tried (lines 576-590), and the
\* ways the search button is clicked (lines 632-646).
NameSelectors ==
    <<"role=textbox[name=Voter Name]", "input[id*=txtName]", "input[placeholder*=Voter Name]",
      "input[name*=Name]">>

SearchButtonSelectors ==
    <<"role=button[name=Search]", "input[type=submit][value=Search]", "button:has-text(Search)",
      "input[id*=btnSearch]", "button[id*=Search]">>

\* The first selector of the list that the page accepts, Absent when none is: each
\* attempt that raises is followed by the next selector.
FirstWorking(selectors, working) ==
    LET hits == {k \in 1..Len(selectors) : selectors[k] \in working}
    IN  IF hits = {} THEN Absent ELSE Some(selectors[CHOOSE k \in hits : \A j \in hits : k <= j])

\* How the page behaves during one _search_voter call.  clear_ok: the Clear step of
\* lines 566-569 does not raise; working: the selectors the page accepts; params_ok:
\* the optional fills of lines 614-623 do not raise; idle_ok: the network-idle wait
\* returns in time; marker_ok: the wait for the results table or the no-results
\* message returns in time; extract_ok: _extract_results does not raise; rows: what
\* _extract_results returns for the page.
SearchEnv(working, rows) ==
    [clear_ok |-> TRUE, working |-> working, params_ok |-> TRUE, idle_ok |-> TRUE,
     marker_ok |-> TRUE, extract_ok |-> TRUE, rows |-> rows]

\* _search_voter without its outer `except`: a failure leaves the function.
SearchVoterCall_Propagates(env) ==
    LET filled == env.clear_ok /\ FirstWorking(NameSelectors, env.working) # Absent /\ env.params_ok
        clicked == filled /\ FirstWorking(SearchButtonSelectors, env.working) # Absent
        extracting == clicked /\ env.idle_ok
    IN  [results |-> IF extracting /\ env.extract_ok THEN env.rows ELSE <<>>,
         clicked |-> clicked,
         extracting |-> extracting,
         raised |-> ~(extracting /\ env.extract_ok)]

\* _search_voter: the list it returns, and whether an exception leaves it.  Every
\* step is inside the outer try, whose `except Exception` leaves results at [].
SearchVoterCall(env) ==
    LET filled == env.clear_ok /\ FirstWorking(NameSelectors, env.working) # Absent /\ env.params_ok
        clicked == filled /\ FirstWorking(SearchButtonSelectors, env.working) # Absent
        extracting == clicked /\ env.idle_ok
    IN  [results |-> IF extracting /\ env.extract_ok THEN env.rows ELSE <<>>,
         clicked |-> clicked,
         extracting |-> extracting,
         raised |-> FALSE]

\* The attempts on one control where every selector of the list is tried.
Attempts_NoBreak(kind, selectors, working) ==
    [k \in 1..Len(selectors) |-> [op |-> kind, target |-> selectors[k], ok |-> selectors[k] \in working]]

\* Lines 574-590 and 630-646: the attempts made on one control.  The role-based locator
\* is tried in the `try`; the structural selectors are tried in the `except`, in the
\* order of the list, each failure going on to the next and a success leaving the loop.
Attempts(kind, selectors, working) ==
    LET hits == {k \in 1..Len(selectors) : selectors[k] \in working}
        last == IF hits = {} THEN Len(selectors) ELSE CHOOSE k \in hits : \A j \in hits : k <= j
    IN  [k \in 1..last |-> [op |-> kind, target |-> selectors[k], ok |-> selectors[k] \in working]]

\* Lines 564-675: the operations _search_voter performs on the page, in order, each
\* with whether it succeeded.  A failed operation outside an inner `try` ends the list:
\* the outer `except` is reached.
SearchVoterOps(env) ==
    LET clear == <<[op |-> "clear", target |-> "a:has-text(Clear)", ok |-> env.clear_ok]>>
        fills == Attempts("fill", NameSelectors, env.working)
        params == IF env.params_ok THEN <<>>
                  ELSE <<[op |-> "fill", target |-> "input[id*=txtAddress]", ok |-> FALSE]>>
        clicks == Attempts("click", SearchButtonSelectors, env.working)
        idle == <<[op |-> "wait", target |-> "networkidle", ok |-> env.idle_ok]>>
        marker == <<[op |-> "wait", target |-> "table[id*=ResultsGrid]", ok |-> env.marker_ok]>>
        extract == <<[op |-> "extract", target |-> "page", ok |-> env.extract_ok]>>
    IN  IF ~env.clear_ok THEN clear
        ELSE IF ~Last(fills).ok THEN clear \o fills
        ELSE IF ~env.params_ok THEN clear \o fills \o params
        ELSE IF ~Last(clicks).ok THEN clear \o fills \o clicks
        ELSE IF ~env.idle_ok THEN clear \o fills \o clicks \o idle
        ELSE clear \o fills \o clicks \o idle \o marker \o extract

(***************************************************************************)
(* all_results and export_results                                          *)
(***************************************************************************)

\* A dict as the sequence of its items in insertion order.
DictKeys(d) == {d[k].key : k \in 1..Len(d)}

DictGet(d, key) == (CHOOSE item \in {d[k] : k \in 1..Len(d)} : item.key = key).value

\* A dict that takes no empty list.
DictSet_SkipEmpty(d, key, value) ==
    IF value = <<>> THEN d
    ELSE IF key \in DictKeys(d)
    THEN [k \in 1..Len(d) |-> IF d[k].key = key THEN [key |-> key, value |-> value] ELSE d[k]]
    ELSE Append(d, [key |-> key, value |-> value])

\* d[key] = value: a new key is added last, an old one keeps its place.
DictSet(d, key, value) ==
    IF key \in DictKeys(d)
    THEN [k \in 1..Len(d) |-> IF d[k].key = key THEN [key |-> key, value |-> value] ELSE d[k]]
    ELSE Append(d, [key |-> key, value |-> value])

\* json.dumps of a str without characters that need escaping.
JsonStr(s) == "\"" \o s \o "\""

\* json.dumps of one result record: its name, its phone and its detail reference.
JsonRecord(r) ==
    "{" \o JsonStr("name") \o ": " \o JsonStr(r.name) \o ", " \o JsonStr("phone") \o ": "
        \o JsonStr(r.phone) \o ", " \o JsonStr("view_voter_url") \o ": "
        \o JsonStr(r.view_voter_url) \o "}"

\* json.dump(results): every item as "key": [records].
JsonDump(d) ==
    "{" \o Join([k \in 1..Len(d) |->
                    JsonStr(d[k].key) \o ": ["
                        \o Join([j \in 1..Len(d[k].value) |-> JsonRecord(d[k].value[j])], ", ")
                        \o "]"], ", ") \o "}"

RECURSIVE CsvRows(_)
\* Lines 1591-1594: one line per record, led by the name searched for.
CsvRows(d) ==
    IF d = <<>> THEN <<>>
    ELSE [j \in 1..Len(Head(d).value) |->
             Head(d).key \o "," \o Head(d).value[j].name \o "," \o Head(d).value[j].phone
                 \o "," \o Head(d).value[j].view_voter_url]
         \o CsvRows(Tail(d))

\* Lines 1579-1594: the header (search_name, then the sorted field names) and the rows;
\* without any record the header has search_name only, without any key nothing is written.
CsvDump(d) ==
    IF d = <<>> THEN ""
    ELSE IF CsvRows(d) = <<>> THEN "search_name\r\n"
    ELSE "search_name,name,phone,view_voter_url\r\n" \o Join(CsvRows(d), "\r\n") \o "\r\n"

\* export_results: the text written to the file.
ExportResults(d, format) == IF format = "json" THEN JsonDump(d) ELSE CsvDump(d)

(***************************************************************************)
(* GoogleSheetsManager                                                     *)
(***************************************************************************)

\* Lines 252-301: read_column.  The rows of the name column from start_row on, in
\* order; an empty name is passed over, and with a row limit the reading stops at the
\* limit-th name.  row is the offset from start_row, counted from 1.
RECURSIVE ReadColumnFrom(_, _, _, _)
ReadColumnFrom(rows, k, limit, entries) ==
    IF k > Len(rows) THEN entries
    ELSE IF Strip(rows[k].name) = "" THEN ReadColumnFrom(rows, k + 1, limit, entries)
    ELSE LET more == Append(entries, [name |-> Strip(rows[k].name), row |-> k])
         IN  IF limit # 0 /\ Len(more) >= limit THEN more
             ELSE ReadColumnFrom(rows, k + 1, limit, more)

ReadColumn(rows, limit) == ReadColumnFrom(rows, 1, limit, <<>>)

\* The check that looks at a later results column as well.
CheckRowAlreadyProcessed_AnyColumn(rows, row) ==
    /\ ~rows[row].unreadable
    /\ Strip(rows[row].result) # "" \/ Strip(rows[row].other) # ""

\* Lines 420-443: check_row_already_processed.  The cell of the results start column in
\* the row is read; a read that raises gives False.
CheckRowAlreadyProcessed(rows, row) ==
    /\ ~rows[row].unreadable
    /\ Strip(rows[row].result) # ""

\* Lines 303-342: update_row, what it returns.  Only the fields with a truthy value are
\* written; without any there is no request and the function falls off its end.
UpdateRowReturn(rows, row, voter_data) ==
    /\ ~rows[row].unwritable
    /\ ~(voter_data.phone = "" /\ voter_data.view_voter_url = "")

\* Lines 303-342: the row after update_row.  phone is the first field of the column
\* mapping and goes to the results start column, view_voter_url to a later column.
UpdateRowCells(rows, row, voter_data) ==
    IF ~UpdateRowReturn(rows, row, voter_data) THEN rows
    ELSE [rows EXCEPT ![row].result = IF voter_data.phone # "" THEN voter_data.phone ELSE @,
                      ![row].other = IF voter_data.view_voter_url # "" THEN voter_data.view_voter_url ELSE @]

(***************************************************************************)
(* main and search_voters                                                  *)
(***************************************************************************)

\* The process ends: asyncio.run(main()) returns (status 0) or an exception leaves
\* main, which prints the traceback and gives status 1.
EndRun(status, lines) ==
    /\ exit' = status
    /\ out' = out \o lines
    /\ mpc' = "done"

\* Lines 1499-1505: command-line mode, the credentials are loaded.
StartDirect ==
    /\ mpc = "start"
    /\ mode = "direct"
    /\ mpc' = "launch"
    /\ UNCHANGED <<mode, voter_names, row_limit, sheet, browser, url, submitted, authRet, authRaised,
                   ni, queries, updated, processed_count, out, exit>>
    /\ UNCHANGED <<rowVars, detailVars, batchVars>>

\* Lines 1657-1706: a missing option, a failed Google authentication, an unreadable
\* spreadsheet or an empty name column ends the run with a message.
SheetsSetupFails ==
    /\ mpc = "start"
    /\ mode = "sheets"
    /\ \E msg \in {"--spreadsheet-id is required when using --sheets",
                   "Failed to authenticate with Google Sheets",
                   "Failed to access spreadsheet"}
                    \cup (IF ReadColumn(sheet, row_limit) = <<>>
                          THEN {"No valid names found in spreadsheet"} ELSE {}) :
            EndRun(0, <<msg>>)
    /\ UNCHANGED <<mode, voter_names, row_limit, sheet, browser, url, submitted, authRet, authRaised,
                   ni, queries, updated, processed_count>>
    /\ UNCHANGED <<rowVars, detailVars, batchVars>>

\* Lines 1657-1750: the names are read with read_column, the header row is written,
\* the credentials loaded.
SheetsSetup ==
    /\ mpc = "start"
    /\ mode = "sheets"
    /\ ReadColumn(sheet, row_limit) # <<>>
    /\ name_entries' = ReadColumn(sheet, row_limit)
    /\ mpc' = "launch"
    /\ UNCHANGED <<mode, voter_names, row_limit, sheet, browser, url, submitted, authRet, authRaised,
                   ni, queries, updated, processed_count, out, exit>>
    /\ UNCHANGED <<site, voter_results, all_results, export_format, exported, update_calls,
                   skipped_count>>
    /\ UNCHANGED <<rowVars, detailVars>>

\* Lines 1507-1520, 1752-1764: the browser is launched and a page opened.
LaunchBrowser ==
    /\ mpc = "launch"
    /\ browser' = "open"
    /\ mpc' = "goto"
    /\ UNCHANGED <<mode, voter_names, row_limit, sheet, url, submitted, authRet, authRaised,
                   ni, queries, updated, processed_count, out, exit>>
    /\ UNCHANGED <<rowVars, detailVars, batchVars>>

\* Lines 1509-1517, 1754-1761: the launch raises; there is no browser to close.
LaunchFails ==
    /\ mpc = "launch"
    /\ EndRun(1, <<"Traceback: Error">>)
    /\ UNCHANGED <<mode, voter_names, row_limit, sheet, browser, url, submitted, authRet, authRaised,
                   ni, queries, updated, processed_count>>
    /\ UNCHANGED <<rowVars, detailVars, batchVars>>

\* Lines 1507, 1519-1520 and 1752, 1763-1764: the browser is launched and
\* new_context() or new_page() raises, before the `try` whose `finally` closes the
\* browser: the exception leaves the `async with async_playwright()` block, whose exit
\* stops Playwright and the browser it launched.
OpenPageFails ==
    /\ mpc = "launch"
    /\ browser' = "closed"
    /\ EndRun(1, <<"Traceback: Error">>)
    /\ UNCHANGED <<mode, voter_names, row_limit, sheet, url, submitted, authRet, authRaised,
                   ni, queries, updated, processed_count>>
    /\ UNCHANGED <<rowVars, detailVars, batchVars>>

\* The URLs the site can leave the page at: the search page, and the login page
\* without and with the return address in its query string.
LoginUrl == "https://www.gopdatacenter.com/Login.aspx"

LoginReturnUrl == "https://www.gopdatacenter.com/Login.aspx?ReturnUrl=%2frnc%2fRecordLookup%2fRecordLookup.aspx"

SiteUrls == {base_url, LoginUrl, LoginReturnUrl}

\* Lines 1526, 1770: page.goto(base_url).
Navigate ==
    /\ mpc = "goto"
    /\ url' \in SiteUrls
    /\ mpc' = "auth"
    /\ UNCHANGED <<mode, voter_names, row_limit, sheet, browser, submitted, authRet, authRaised,
                   ni, queries, updated, processed_count, out, exit>>
    /\ UNCHANGED <<rowVars, detailVars, batchVars>>

\* Lines 1526, 1551-1552 and 1770, 1855-1856: page.goto raises; `finally` closes the browser.
NavigateFails ==
    /\ mpc = "goto"
    /\ browser' = "closed"
    /\ EndRun(1, <<"Traceback: TimeoutError">>)
    /\ UNCHANGED <<mode, voter_names, row_limit, sheet, url, submitted, authRet, authRaised,
                   ni, queries, updated, processed_count>>
    /\ UNCHANGED <<rowVars, detailVars, batchVars>>

\* Lines 532-558: _authenticate, with every way its awaited calls can go.
AuthenticateCall ==
    /\ mpc = "auth"
    /\ \E failsAt \in 0..Len(AuthCalls), error \in PageErrors, after \in SiteUrls :
        LET a == Authenticate(url, failsAt, error, after)
        IN  /\ authRet' = a.ret
            /\ authRaised' = a.raised
            /\ submitted' = a.submitted
            /\ url' = a.url
            /\ out' = out \o a.out
    /\ mpc' = "authed"
    /\ UNCHANGED <<mode, voter_names, row_limit, sheet, browser, ni, queries, updated, processed_count, exit>>
    /\ UNCHANGED <<rowVars, detailVars, batchVars>>

\* Lines 1531-1532, 1551-1552: search_voters raises Exception("Authentication failed");
\* `finally` closes the browser and the exception leaves main.
AuthFailedDirect ==
    /\ mpc = "authed"
    /\ mode = "direct"
    /\ authRet # Some(TRUE)
    /\ browser' = "closed"
    /\ EndRun(1, <<"Traceback: Exception: Authentication failed">>)
    /\ UNCHANGED <<mode, voter_names, row_limit, sheet, url, submitted, authRet, authRaised,
                   ni, queries, updated, processed_count>>
    /\ UNCHANGED <<rowVars, detailVars, batchVars>>

\* main returns on a failed authentication without the browser being closed.
AuthFailedSheets_Leak ==
    /\ mpc = "authed"
    /\ mode = "sheets"
    /\ authRet # Some(TRUE)
    /\ IF authRaised THEN EndRun(1, <<"Traceback: Error">>)
       ELSE EndRun(0, <<"Authentication failed">>)
    /\ UNCHANGED <<mode, voter_names, row_limit, sheet, browser, url, submitted, authRet, authRaised,
                   ni, queries, updated, processed_count>>
    /\ UNCHANGED <<rowVars, detailVars, batchVars>>

\* Lines 1774-1776, 1855-1856: main prints the failure and returns; `finally` closes
\* the browser.  An exception out of _authenticate would leave main instead.
AuthFailedSheets ==
    /\ mpc = "authed"
    /\ mode = "sheets"
    /\ authRet # Some(TRUE)
    /\ browser' = "closed"
    /\ IF authRaised THEN EndRun(1, <<"Traceback: Error">>)
       ELSE EndRun(0, <<"Authentication failed">>)
    /\ UNCHANGED <<mode, voter_names, row_limit, sheet, url, submitted, authRet, authRaised,
                   ni, queries, updated, processed_count>>
    /\ UNCHANGED <<rowVars, detailVars, batchVars>>

\* Lines 1531-1535, 1774-1782: authenticated, the loop over the names starts.
AuthSucceeded ==
    /\ mpc = "authed"
    /\ authRet = Some(TRUE)
    /\ mpc' = "loop"
    /\ UNCHANGED <<mode, voter_names, row_limit, sheet, browser, url, submitted, authRet, authRaised,
                   ni, queries, updated, processed_count, out, exit>>
    /\ UNCHANGED <<rowVars, detailVars, batchVars>>

\* The names the loop goes over.
LoopNames ==
    IF mode = "sheets" THEN [k \in 1..Len(name_entries) |-> name_entries[k].name] ELSE voter_names

\* Lines 1535-1543: one name of search_voters: _search_voter is called and its list
\* stored under the name.  An exception that left _search_voter would leave
\* search_voters through `finally`.
SearchVoter ==
    /\ mpc = "loop"
    /\ mode = "direct"
    /\ ni <= Len(voter_names)
    /\ LET call == SearchVoterCall(site[voter_names[ni]])
       IN  IF call.raised
           THEN /\ browser' = "closed"
                /\ EndRun(1, <<"Traceback">>)
                /\ UNCHANGED <<queries, ni, voter_results, all_results>>
           ELSE /\ queries' = queries + 1
                /\ voter_results' = call.results
                /\ all_results' = DictSet(all_results, voter_names[ni], call.results)
                /\ ni' = ni + 1
                /\ UNCHANGED <<browser, out, exit, mpc>>
    /\ UNCHANGED <<mode, voter_names, row_limit, sheet, url, submitted, authRet, authRaised,
                   updated, processed_count>>
    /\ UNCHANGED <<name_entries, site, export_format, exported, update_calls, skipped_count>>
    /\ UNCHANGED <<rowVars, detailVars>>

\* Lines 1798-1804 and 1838-1847: processed_count is incremented; the loop breaks at
\* the row limit and goes to the next entry otherwise.
CountAndContinue ==
    /\ processed_count' = processed_count + 1
    /\ IF row_limit # 0 /\ processed_count + 1 >= row_limit
       THEN ni' = Len(name_entries) + 1
       ELSE ni' = ni + 1

\* The skip that does not count toward the row limit.
SkipProcessed_NotCounted ==
    /\ mpc = "loop"
    /\ mode = "sheets"
    /\ ni <= Len(name_entries)
    /\ CheckRowAlreadyProcessed(sheet, name_entries[ni].row)
    /\ skipped_count' = skipped_count + 1
    /\ ni' = ni + 1
    /\ UNCHANGED <<mode, voter_names, row_limit, sheet, browser, url, submitted, authRet, authRaised,
                   queries, updated, processed_count, out, exit, mpc>>
    /\ UNCHANGED <<name_entries, site, voter_results, all_results, export_format, exported,
                   update_calls>>
    /\ UNCHANGED <<rowVars, detailVars>>

\* Lines 1782-1804: an entry whose results column holds data is skipped.
SkipProcessed ==
    /\ mpc = "loop"
    /\ mode = "sheets"
    /\ ni <= Len(name_entries)
    /\ CheckRowAlreadyProcessed(sheet, name_entries[ni].row)
    /\ skipped_count' = skipped_count + 1
    /\ CountAndContinue
    /\ UNCHANGED <<mode, voter_names, row_limit, sheet, browser, url, submitted, authRet, authRaised,
                   queries, updated, out, exit, mpc>>
    /\ UNCHANGED <<name_entries, site, voter_results, all_results, export_format, exported,
                   update_calls>>
    /\ UNCHANGED <<rowVars, detailVars>>

\* Lines 1806-1847: the entry is searched through search_single_voter, which turns an
\* exception into []; with a result update_row is called at once for the first record.
\* The records of these runs hold no detailed_info key, so that the merge of lines
\* 1813-1816 leaves them as they are; MergeFirstResult is the merge.
ProcessEntry ==
    /\ mpc = "loop"
    /\ mode = "sheets"
    /\ ni <= Len(name_entries)
    /\ ~CheckRowAlreadyProcessed(sheet, name_entries[ni].row)
    /\ queries' = queries + 1
    /\ LET call == SearchVoterCall(site[name_entries[ni].name])
           found == IF call.raised THEN <<>> ELSE call.results
           current_row == name_entries[ni].row
       IN  /\ voter_results' = found
           /\ IF found # <<>>
              THEN /\ update_calls' = Append(update_calls, current_row)
                   /\ sheet' = UpdateRowCells(sheet, current_row, found[1])
                   /\ updated' = IF UpdateRowReturn(sheet, current_row, found[1])
                                 THEN Append(updated, current_row) ELSE updated
              ELSE UNCHANGED <<update_calls, sheet, updated>>
    /\ CountAndContinue
    /\ UNCHANGED <<mode, voter_names, row_limit, browser, url, submitted, authRet, authRaised,
                   out, exit, mpc>>
    /\ UNCHANGED <<name_entries, site, all_results, export_format, exported, skipped_count>>
    /\ UNCHANGED <<rowVars, detailVars>>

\* Lines 1541-1543 and 1845-1847, with 1551-1552 and 1855-1856: the delay between two
\* searches raises (the page was closed under it): the exception leaves the loop,
\* `finally` closes the browser and the exception leaves main.  The delay is made
\* after a search that was not the last one: in command-line mode when the name
\* differs from the last name, with a spreadsheet after an entry that was searched.
LoopDelayFails ==
    /\ mpc = "loop"
    /\ ni > 1
    /\ ni <= Len(LoopNames)
    /\ IF mode = "direct" THEN voter_names[ni - 1] # Last(voter_names) ELSE skipped_count = 0
    /\ browser' = "closed"
    /\ EndRun(1, <<"Traceback: Error">>)
    /\ UNCHANGED <<mode, voter_names, row_limit, sheet, url, submitted, authRet, authRaised,
                   ni, queries, updated, processed_count>>
    /\ UNCHANGED <<rowVars, detailVars, batchVars>>

\* Lines 1545-1554, 1849-1864 and 1942-1943: the loop is over; `finally` closes the
\* browser, the results or the counts are printed, and in command-line mode the results
\* are exported when --export was given.
FinishRun ==
    /\ mpc = "loop"
    /\ ni > Len(LoopNames)
    /\ browser' = "closed"
    /\ exported' = IF mode = "direct" /\ export_format # ""
                   THEN Some(ExportResults(all_results, export_format)) ELSE exported
    /\ EndRun(0, <<>>)
    /\ UNCHANGED <<mode, voter_names, row_limit, sheet, url, submitted, authRet, authRaised,
                   ni, queries, updated, processed_count>>
    /\ UNCHANGED <<name_entries, site, voter_results, all_results, export_format,
                   update_calls, skipped_count>>
    /\ UNCHANGED <<rowVars, detailVars>>

RunNext ==
    \/ StartDirect \/ SheetsSetupFails \/ SheetsSetup \/ LaunchBrowser \/ LaunchFails
    \/ Navigate \/ NavigateFails \/ AuthenticateCall
    \/ AuthFailedDirect \/ AuthFailedSheets \/ AuthSucceeded
    \/ SearchVoter \/ SkipProcessed \/ ProcessEntry \/ FinishRun
    \/ OpenPageFails \/ LoopDelayFails

(***************************************************************************)
(* Inputs of a run                                                         *)
(***************************************************************************)

\* The most names a command line gives.
MaxNames == 2

VoterNames == {"Ann Lee", "Bob Ray"}

\* The names of the spreadsheets.
SheetNames == {"Ann Lee", "Bob Ray", "Cy Poe", "Di Fox", "Ed Guy"}

\* One record of a results page, reduced to the fields the run looks at.
Found(name, phone, ref) == [name |-> name, phone |-> phone, view_voter_url |-> ref]

AllSelectors ==
    {NameSelectors[k] : k \in 1..Len(NameSelectors)}
        \cup {SearchButtonSelectors[k] : k \in 1..Len(SearchButtonSelectors)}

\* A page on which the search works and gives the rows.
Answers(rows) == SearchEnv(AllSelectors, rows)

OneRow == <<Found("Ann Lee", "(555) 1", "/v/1")>>

TwoRows == <<Found("Ann Lee", "", "/v/1"), Found("Ann Lea", "(555) 2", "")>>

\* The behaviours of the search page: the search works (two, one or no rows, or a row
\* without phone and reference); only the last fallback selectors work; no name field
\* is found; no search button is found; the Clear step raises; the network-idle wait
\* times out; the wait for the results marker times out; _extract_results raises.
SearchEnvs ==
    {Answers(OneRow), Answers(TwoRows), Answers(<<>>), Answers(<<Found("Bob Ray", "", "")>>),
     SearchEnv({"input[name*=Name]", "button[id*=Search]"}, OneRow),
     SearchEnv({"role=button[name=Search]"}, OneRow),
     SearchEnv({"input[id*=txtName]"}, OneRow),
     [Answers(OneRow) EXCEPT !.clear_ok = FALSE],
     [Answers(OneRow) EXCEPT !.idle_ok = FALSE],
     [Answers(OneRow) EXCEPT !.marker_ok = FALSE],
     [Answers(OneRow) EXCEPT !.extract_ok = FALSE]}

\* The sites that behave as one of envs for each of the names.
Sites(names, envs) ==
    {[n \in VoterNames \cup SheetNames |-> IF n \in names THEN f[n] ELSE Answers(<<>>)] :
        f \in [names -> envs]}

\* One row of the spreadsheet.  name: the cell of the name column; result: the cell of
\* the results start column; other: the cell of a later results column; unreadable:
\* reading the row's cell raises; unwritable: the update request raises.
SheetRow(name, result, other) ==
    [name |-> name, result |-> result, other |-> other, unreadable |-> FALSE, unwritable |-> FALSE]

RunInit ==
    /\ mode \in {"direct", "sheets"}
    /\ voter_names \in IF mode = "direct" THEN SeqsUpTo(VoterNames, MaxNames) \ {<<>>} ELSE {<<>>}
    /\ row_limit \in IF mode = "sheets" THEN 0..1 ELSE {0}
    /\ sheet \in IF mode = "sheets"
                 THEN {<<>>,
                       <<SheetRow("Ann Lee", "", "")>>,
                       <<SheetRow("Ann Lee", "(555) 1", ""), SheetRow("Bob Ray", "", "")>>,
                       <<SheetRow("Ann Lee", "", ""), SheetRow("Bob Ray", "x", "")>>}
                 ELSE {<<>>}
    /\ site \in Sites({"Ann Lee"}, {Answers(OneRow), Answers(TwoRows), [Answers(OneRow) EXCEPT !.idle_ok = FALSE]})
    /\ export_format \in IF mode = "direct" THEN {"", "json"} ELSE {""}
    /\ name_entries = <<>>
    /\ voter_results = <<>>
    /\ all_results = <<>>
    /\ exported = Absent
    /\ update_calls = <<>>
    /\ skipped_count = 0
    /\ browser = "none"
    /\ url = ""
    /\ submitted = FALSE
    /\ authRet = Absent
    /\ authRaised = FALSE
    /\ ni = 1
    /\ queries = 0
    /\ updated = <<>>
    /\ processed_count = 0
    /\ out = <<>>
    /\ exit = -1
    /\ mpc = "start"
    /\ RowsIdle
    /\ DetailIdle

(***************************************************************************)
(* Properties of a run                                                     *)
(***************************************************************************)

\* The page is at the search landing page.
IsLandingPage(u) == StartsWith(u, base_url)

\* C9: _authenticate never raises; it returns true only when the login form was
\* submitted and the page URL is then the search landing page, and false otherwise.
C9_AuthenticateResult ==
    [][AuthenticateCall =>
        /\ ~authRaised'
        /\ authRet' \in {Some(TRUE), Some(FALSE)}
        /\ authRet' = Some(TRUE) => (submitted' /\ IsLandingPage(url'))]_vars

\* C10: a run whose authentication failed made no search and updated no row, closed
\* the browser, printed a message and ended with a non-zero exit status.
C10_AuthFailureAborts ==
    (mpc = "done" /\ authRet = Some(FALSE)) =>
        /\ queries = 0
        /\ updated = <<>>
        /\ browser = "closed"
        /\ out # <<>>
        /\ exit # 0

(***************************************************************************)
(* The loop of search_voters over the names, from the authenticated page   *)
(***************************************************************************)

\* The state in which search_voters enters its loop: the browser is open, the login
\* form was submitted and the page is the landing page.
SearchInit ==
    /\ mode = "direct"
    /\ voter_names \in SeqsUpTo(VoterNames, MaxNames) \ {<<>>}
    /\ row_limit = 0
    /\ sheet = <<>>
    /\ site \in Sites(VoterNames, SearchEnvs)
    /\ export_format \in {"", "json", "csv"}
    /\ name_entries = <<>>
    /\ voter_results = <<>>
    /\ all_results = <<>>
    /\ exported = Absent
    /\ update_calls = <<>>
    /\ skipped_count = 0
    /\ browser = "open"
    /\ url = base_url
    /\ submitted = TRUE
    /\ authRet = Some(TRUE)
    /\ authRaised = FALSE
    /\ ni = 1
    /\ queries = 0
    /\ updated = <<>>
    /\ processed_count = 0
    /\ out = <<>>
    /\ exit = -1
    /\ mpc = "loop"
    /\ RowsIdle
    /\ DetailIdle

SearchNext == SearchVoter \/ FinishRun

SpecSearch == SearchInit /\ [][SearchNext]_vars

\* The form was filled and the Search button clicked.
FormSubmitted(env) ==
    /\ env.clear_ok
    /\ FirstWorking(NameSelectors, env.working) # Absent
    /\ env.params_ok
    /\ FirstWorking(SearchButtonSelectors, env.working) # Absent

\* C11: once the form is submitted, a timeout of the network-idle wait or of the wait
\* for the results marker does not fail the query: the extraction is run and its
\* records are returned.
C11_PostSubmitTimeoutTolerated ==
    [][SearchVoter =>
        LET env == site[voter_names[ni]]
        IN  (FormSubmitted(env) /\ env.extract_ok) => voter_results' = env.rows]_vars

\* The query fails while filling, submitting or extracting.
QueryFails(env) == ~FormSubmitted(env) \/ ~env.idle_ok \/ ~env.extract_ok

\* C12: a failure while filling, submitting or extracting a query does not leave
\* the loop: the query maps to the empty list, the session stays open, the next name
\* is the next query, and a run that got past the login ends with every name queried.
C12_QueryFailureIsolated ==
    /\ [][(SearchVoter /\ QueryFails(site[voter_names[ni]])) =>
            /\ DictGet(all_results', voter_names[ni]) = <<>>
            /\ mpc' = "loop"
            /\ browser' = "open"
            /\ exit' = -1
            /\ ni' = ni + 1
            /\ queries' = queries + 1]_vars
    /\ []((mpc = "done" /\ mode = "direct" /\ authRet = Some(TRUE)) =>
            (exit = 0 /\ queries = Len(voter_names)))

\* The first of two queries failed for want of a name field; the second gave a row.
C12_Witness ==
    /\ mpc = "done"
    /\ mode = "direct"
    /\ Len(voter_names) = 2
    /\ FirstWorking(NameSelectors, site[voter_names[1]].working) = Absent
    /\ all_results = <<[key |-> voter_names[1], value |-> <<>>],
                       [key |-> voter_names[2], value |-> OneRow]>>

\* The names queried.
Queried == {voter_names[k] : k \in 1..Len(voter_names)}

\* C18: after an authenticated run over the names, the mapping has exactly one entry
\* for each name queried, a name whose search gave no row maps to the empty list, and
\* the JSON export holds every key.
C18_OneEntryPerName ==
    (mpc = "done" /\ mode = "direct" /\ authRet = Some(TRUE)) =>
        /\ DictKeys(all_results) = Queried
        /\ Len(all_results) = Cardinality(Queried)
        /\ \A name \in Queried :
            /\ SearchVoterCall(site[name]).results = <<>> => DictGet(all_results, name) = <<>>
            /\ export_format = "json" =>
                /\ exported # Absent
                /\ Contains(exported[1], JsonStr(name) \o ": [")
                /\ DictGet(all_results, name) = <<>> =>
                        Contains(exported[1], JsonStr(name) \o ": []")

\* A run over two names, the second without any row, exported as JSON.
C18_Witness ==
    /\ mpc = "done"
    /\ mode = "direct"
    /\ export_format = "json"
    /\ Len(all_results) = 2
    /\ all_results[1].value = OneRow
    /\ all_results[2].value = <<>>
    /\ exported # Absent
    /\ Contains(exported[1], "\"Bob Ray\": []")

\* The attempts of one kind on the selectors of one control, as indices of ops.
AttemptsOn(ops, kind, selectors) ==
    {k \in 1..Len(ops) : ops[k].op = kind /\ \E s \in 1..Len(selectors) : ops[k].target = selectors[s]}

\* The n-th attempt on the control uses the n-th strategy of the list, and an attempt
\* is followed by another only if it failed.
InOrderUntilSuccess(ops, kind, selectors) ==
    LET att == AttemptsOn(ops, kind, selectors)
    IN  /\ \A k \in att : ops[k].target = selectors[Cardinality({j \in att : j <= k})]
        /\ \A k, j \in att : k < j => ~ops[k].ok

\* The page accepts none of the strategies of the control.
NoneWorks(selectors, env) == \A s \in 1..Len(selectors) : selectors[s] \notin env.working

\* The name field is reached and no strategy fills it.
NameFieldFails(env) == env.clear_ok /\ NoneWorks(NameSelectors, env)

\* The name field is filled and no strategy clicks the submit control.
SubmitFails(env) ==
    env.clear_ok /\ ~NoneWorks(NameSelectors, env) /\ env.params_ok /\ NoneWorks(SearchButtonSelectors, env)

\* The operations of the kinds that follow in ops.
KindsIn(ops) == {ops[k].op : k \in 1..Len(ops)}

\* C23: for the name field and for the submit control the role-based locator is tried
\* first and the structural selectors after it in their fixed order, and no strategy
\* is tried after one succeeded; when every strategy of a control fails the query is
\* aborted: the failed last strategy is the last operation on the page, nothing is
\* submitted (name field) or awaited or extracted after it, and the query's result
\* list is empty.  A non-empty result list comes from an extraction only.
C23_SelectorFallbackThenAbort ==
    [][SearchVoter =>
        LET env == site[voter_names[ni]]
            ops == SearchVoterOps(env)
        IN  /\ InOrderUntilSuccess(ops, "fill", NameSelectors)
            /\ InOrderUntilSuccess(ops, "click", SearchButtonSelectors)
            /\ NameFieldFails(env) =>
                  /\ Cardinality(AttemptsOn(ops, "fill", NameSelectors)) = Len(NameSelectors)
                  /\ Last(ops) = [op |-> "fill", target |-> Last(NameSelectors), ok |-> FALSE]
                  /\ KindsIn(ops) \cap {"click", "wait", "extract"} = {}
                  /\ voter_results' = <<>>
                  /\ DictGet(all_results', voter_names[ni]) = <<>>
            /\ SubmitFails(env) =>
                  /\ Cardinality(AttemptsOn(ops, "click", SearchButtonSelectors)) = Len(SearchButtonSelectors)
                  /\ Last(ops) = [op |-> "click", target |-> Last(SearchButtonSelectors), ok |-> FALSE]
                  /\ KindsIn(ops) \cap {"wait", "extract"} = {}
                  /\ voter_results' = <<>>
                  /\ DictGet(all_results', voter_names[ni]) = <<>>
            /\ voter_results' # <<>> => Last(ops) = [op |-> "extract", target |-> "page", ok |-> TRUE]]_vars

\* The first query found its controls by their last structural selectors and gave a
\* row; the second found a submit control and no name field, and gave nothing.
C23_Witness ==
    /\ mpc = "done"
    /\ mode = "direct"
    /\ Len(voter_names) = 2
    /\ site[voter_names[1]].working = {"input[name*=Name]", "button[id*=Search]"}
    /\ site[voter_names[2]].working = {"role=button[name=Search]"}
    /\ Len(all_results) = 2
    /\ all_results[1].value = OneRow
    /\ all_results[2].value = <<>>

(***************************************************************************)
(* The loop of main over the rows of a spreadsheet                         *)
(***************************************************************************)

\* The number of rows of the name column.
MaxSheetRows == 5

\* The largest --row-limit; 0 stands for no limit.
MaxRowLimit == 3

NameList == <<"Ann Lee", "Bob Ray", "Cy Poe", "Di Fox", "Ed Guy">>

NameOfRow(k) == NameList[((k - 1) % Len(NameList)) + 1]

\* The kinds of row k: not yet processed; processed; and one more that depends on k:
\* a results start cell of blanks beside a filled later column, a filled cell whose
\* read raises, a row without name, a row whose update raises.
RowKinds(k) ==
    {SheetRow(NameOfRow(k), "", ""),
     SheetRow(NameOfRow(k), "(555) 9", "/v/9"),
     CASE k % 4 = 1 -> SheetRow(NameOfRow(k), " ", "/v/8")
       [] k % 4 = 2 -> [SheetRow(NameOfRow(k), "x", "") EXCEPT !.unreadable = TRUE]
       [] k % 4 = 3 -> SheetRow(" ", "", "")
       [] OTHER -> [SheetRow(NameOfRow(k), "", "") EXCEPT !.unwritable = TRUE]}

RECURSIVE SheetsOf(_)
\* The spreadsheets of n rows.
SheetsOf(n) ==
    IF n = 0 THEN {<<>>}
    ELSE {Append(rows, row) : rows \in SheetsOf(n - 1), row \in RowKinds(n)}

\* Two sites: every search gives a row; or some searches give two rows, none, a row
\* without phone and reference, and a network-idle timeout.
SheetSites ==
    {[n \in VoterNames \cup SheetNames |-> Answers(OneRow)],
     [n \in VoterNames \cup SheetNames |->
        CASE n = "Ann Lee" -> Answers(TwoRows)
          [] n = "Bob Ray" -> Answers(<<Found("Bob Ray", "", "")>>)
          [] n = "Cy Poe" -> Answers(<<>>)
          [] n = "Di Fox" -> [Answers(OneRow) EXCEPT !.idle_ok = FALSE]
          [] OTHER -> Answers(OneRow)]}

\* The state in which main enters its loop over the entries: the names were read with
\* read_column, the browser is open and the login succeeded.
SheetsInit ==
    /\ mode = "sheets"
    /\ voter_names = <<>>
    /\ row_limit \in 0..MaxRowLimit
    /\ sheet \in SheetsOf(MaxSheetRows)
    /\ site \in SheetSites
    /\ export_format = ""
    /\ name_entries = ReadColumn(sheet, row_limit)
    /\ name_entries # <<>>
    /\ voter_results = <<>>
    /\ all_results = <<>>
    /\ exported = Absent
    /\ update_calls = <<>>
    /\ skipped_count = 0
    /\ browser = "open"
    /\ url = base_url
    /\ submitted = TRUE
    /\ authRet = Some(TRUE)
    /\ authRaised = FALSE
    /\ ni = 1
    /\ queries = 0
    /\ updated = <<>>
    /\ processed_count = 0
    /\ out = <<>>
    /\ exit = -1
    /\ mpc = "loop"
    /\ RowsIdle
    /\ DetailIdle

SheetsNext == SkipProcessed \/ ProcessEntry \/ FinishRun

SpecSheets == SheetsInit /\ [][SheetsNext]_vars

\* The text holds nothing but whitespace.
Blank(s) == \A k \in 1..Len(s) : Ch(s, k) \in Whitespace

\* The results start cell of the row is filled and can be read.
Populated(row) == ~sheet[row].unreadable /\ ~Blank(sheet[row].result)

\* A sheet of five names whose rows 1 and 2 are populated and whose rows 3 to 5 were
\* not when the run began, with --row-limit 3.
FiveRowsTwoPopulated ==
    /\ row_limit = 3
    /\ Len(sheet) = 5
    /\ \A k \in 1..5 : ~Blank(sheet[k].name)
    /\ Populated(1) /\ Populated(2)
    /\ ~Populated(4) /\ ~Populated(5)
    /\ ~Populated(3) \/ update_calls = <<3>>

C17_SkipIffStartCellFilled ==
    [][(SkipProcessed \/ ProcessEntry) =>
        LET cell == sheet[name_entries[ni].row]
        IN  IF ~Blank(cell.result) /\ ~cell.unreadable
            THEN skipped_count' = skipped_count + 1 /\ queries' = queries
            ELSE skipped_count' = skipped_count /\ queries' = queries + 1]_vars

\* Row 1, blank in its results start cell and filled beside it, and row 2, whose check
\* failed, were searched and update_row called for them; row 5 was skipped.
C17_Witness ==
    /\ mpc = "done"
    /\ Len(sheet) >= 5
    /\ Len(update_calls) >= 2
    /\ update_calls[1] = 1
    /\ update_calls[2] = 2
    /\ sheet[2].unreadable
    /\ sheet[1].result = " "
    /\ sheet[1].other = "/v/1"
    /\ skipped_count >= 1
    /\ Populated(5)
    /\ 5 \notin {update_calls[k] : k \in 1..Len(update_calls)}

\* C27: a row for which the search returned a record and update_row was called is
\* detected as already processed at the start of the next run over the same sheet and
\* start column: after the call the check of the row holds.  Rows whose cells cannot
\* be read or written are left aside.
C27_UpdatedRowSkippedNextRun ==
    [][ProcessEntry =>
        LET current_row == name_entries[ni].row
        IN  (voter_results' # <<>> /\ ~sheet[current_row].unreadable /\ ~sheet[current_row].unwritable)
                => CheckRowAlreadyProcessed(sheet', current_row)]_vars

(***************************************************************************)
(* main: the merge of the detailed information into the first result       *)
(***************************************************************************)

\* asdict(detailed_record): every field of DetailedVoterRecord under its name.
AsDict(r) == [k \in DetailFields \cup {"name"} |-> IF k = "name" THEN Some(r.name) ELSE r.f[k]]

SummaryFields ==
    {"name", "address", "city", "state", "zip_code", "phone", "date_of_birth", "calculated_party",
     "view_voter_url", "voter_id", "precinct", "status"}

\* One element of the list _extract_results returns: d holds the fields of
\* asdict(VoterRecord), the required ones as Some(text); detailed_info is the value of
\* the key of that name, Absent when the dict has no such key (lines 812-818).
ResultDict(row, detailed_info) ==
    LET s == SummaryRecord(row, Absent)
    IN  [d |-> [k \in SummaryFields |->
                   IF k \in {"name", "address", "city", "state", "zip_code"} THEN Some(s[k]) ELSE s[k]],
         detailed_info |-> detailed_info]

\* Lines 1813-1816: with --extract-details and a detailed_info in the first result,
\* the key is popped and dict.update() stores every key of it in voter_data.
MergeDetailedInfo(voter_data, flag) ==
    IF flag /\ voter_data.detailed_info # Absent
    THEN LET info == voter_data.detailed_info[1]
         IN  [d |-> [k \in DOMAIN voter_data.d \cup DOMAIN info |->
                        IF k \in DOMAIN info THEN info[k] ELSE voter_data.d[k]],
              detailed_info |-> Absent]
    ELSE voter_data

\* Lines 815-818 and 950-953: the row's record is returned by the search, with the
\* dict of the record read from the detail page under detailed_info when
\* --extract-details is given and the detail extraction returned a record.
AttachDetailedInfo ==
    /\ mpc = "search"
    /\ IF extract_details THEN dpc = "done" ELSE dpc = "idle"
    /\ voter_results' =
          <<[voter_results[1] EXCEPT
                !.detailed_info = IF extract_details /\ dret # Absent THEN Some(AsDict(dret[1])) ELSE Absent]>>
    /\ mpc' = "found"
    /\ UNCHANGED <<mode, voter_names, row_limit, sheet, browser, url, submitted, authRet, authRaised,
                   ni, queries, updated, processed_count, out, exit>>
    /\ UNCHANGED <<name_entries, site, all_results, export_format, exported, update_calls,
                   skipped_count>>
    /\ UNCHANGED <<rowVars, detailVars>>

\* Lines 1806-1816: the first result of the search becomes voter_data, and the merge is
\* made in it (the dict is the first element of voter_results).
MergeFirstResult ==
    /\ mpc = "found"
    /\ voter_results # <<>>
    /\ voter_results' = <<MergeDetailedInfo(voter_results[1], extract_details)>> \o Tail(voter_results)
    /\ mpc' = "merged"
    /\ UNCHANGED <<mode, voter_names, row_limit, sheet, browser, url, submitted, authRet, authRaised,
                   ni, queries, updated, processed_count, out, exit>>
    /\ UNCHANGED <<name_entries, site, all_results, export_format, exported, update_calls,
                   skipped_count>>
    /\ UNCHANGED <<rowVars, detailVars>>

\* The rows of a results page that are parsed into a record.
MergeRows == {row \in BodyRows : ~row.textFails /\ ~RowTooShort(RowLines(row.text))}

\* Detail pages: a Personal Info section, alone or followed by one other section, and
\* a page that does not load.
MergePages ==
    {Page(<<a>>, <<>>) : a \in PersonalArticles}
        \cup {Page(<<a, b>>, <<>>) :
                 a \in PersonalArticles, b \in ContactArticles \cup VoterArticles \cup UnknownArticles}
        \cup {[Page(<<>>, <<>>) EXCEPT !.loadFails = TRUE]}

\* The search of one sheet entry has parsed the first row of the results page; with
\* --extract-details the detail page of the row is about to be read.
MergeInit ==
    /\ mode = "sheets"
    /\ extract_details \in BOOLEAN
    /\ voter_results \in {<<ResultDict(row, Absent)>> : row \in MergeRows}
    /\ mpc = "search"
    /\ IF extract_details
       THEN /\ page \in MergePages
            /\ di = 1
            /\ rec = NewDetailedRecord
            /\ dret = Absent
            /\ dpc = "start"
       ELSE DetailIdle
    /\ voter_names = <<>>
    /\ row_limit = 0
    /\ sheet = <<>>
    /\ site = <<>>
    /\ export_format = ""
    /\ name_entries = <<>>
    /\ all_results = <<>>
    /\ exported = Absent
    /\ update_calls = <<>>
    /\ skipped_count = 0
    /\ browser = "open"
    /\ url = base_url
    /\ submitted = TRUE
    /\ authRet = Some(TRUE)
    /\ authRaised = FALSE
    /\ ni = 1
    /\ queries = 0
    /\ updated = <<>>
    /\ processed_count = 0
    /\ out = <<>>
    /\ exit = -1
    /\ table = NoTable
    /\ ri = 1
    /\ results = <<>>
    /\ rpc = "idle"
    /\ tabs = 0
    /\ at_results = TRUE

MergeNext == DetailNext \/ AttachDetailedInfo \/ MergeFirstResult

SpecMerge == MergeInit /\ [][MergeNext]_vars

\* C26: merging the detailed information into the first search result never replaces
\* a populated summary field (name, calculated_party, precinct) with an absent value:
\* a field that held a non-empty text before the merge holds one after it.
C26_MergeKeepsPopulatedSummary ==
    [][MergeFirstResult =>
        \A k \in {"name", "calculated_party", "precinct"} :
            Truthy(voter_results[1].d[k]) => Truthy(voter_results'[1].d[k])]_vars

\* C30: once the browser has been launched, every way the run can end (all queries
\* done, authentication failure, row limit reached, an exception escaping the loop)
\* closes the browser: the step that ends a run whose browser is open closes it, and
\* no run has ended with the browser still open.
C30_BrowserClosedAtEnd ==
    /\ [][(browser = "open" /\ mpc' = "done") => browser' = "closed"]_vars
    /\ [](mpc = "done" => browser # "open")
    /\ [](browser = "closed" => mpc = "done")

\* An authenticated run over a spreadsheet ended at its row limit of one, after one
\* search, with the browser closed.
C30_Witness ==
    /\ mpc = "done"
    /\ mode = "sheets"
    /\ browser = "closed"
    /\ authRet = Some(TRUE)
    /\ row_limit = 1
    /\ processed_count = 1
    /\ queries = 1
    /\ exit = 0

Init == RunInit

Next == RunNext

Spec == Init /\ [][Next]_vars
====
